---- MODULE Spec2Model ----
(***************************************************************************)
(* Model of the dive-condition scoring engine (src/core/scorer.py), the    *)
(* snapshot assembler and ranking engine (src/core/ranker.py) and the      *)
(* digest generator (src/digests/daily_digest.py).                         *)
(*                                                                         *)
(* Numbers.  Python floats are modelled as exact rationals held in         *)
(* integers:                                                               *)
(*   - heights are in tenths of a foot, rainfall in tenths of an inch,     *)
(*     periods in seconds, wind speed in mph, discharge in cfs;            *)
(*   - compass directions are in points of 22.5 degrees (0 = N, 4 = E,     *)
(*     8 = S, 12 = W), the only directions the assembler produces;         *)
(*   - an unrounded component score s is held as s * SCALE, the unrounded  *)
(*     total as total * SCALE * 20 (the weights are twentieths);           *)
(*   - a value stored in a ScoringResult after round(x, 1) is in tenths.   *)
(* An Optional[...] value is <<>> for None and <<v>> for a value v.        *)
(***************************************************************************)
EXTENDS Integers, Sequences, FiniteSets, TLC

VARIABLES
    inputs,          \* scorer: the ScoringInput handed to calculate_score
    result,          \* scorer: the ScoringResult returned, <<>> before the call
    previous,        \* scorer: the result of the call before, <<>> if none
    calls,           \* history: the calls made to calculate_score, in order
    pc,              \* ranker: position inside rank_sites / generate
    caller,          \* ranker: "rank" (rank_sites called directly) or "digest"
    sites,           \* ranker: the batch, a sequence of catalog ids
    idx,             \* ranker: position of the location being scored
    min_score,       \* ranker: the min_score argument, in tenths
    ranked_sites,    \* ranker: the list being built, then the list returned
    conditions,      \* ranker: the snapshot being assembled, <<>> outside
    marine_alerts_cache,   \* SiteRanker._marine_alerts_cache
    advisories_cache,      \* SiteRanker._advisories_cache
    clock,           \* the hour datetime.now() reports
    log,             \* history: per batch position, how scoring it ended
    alert_queries,   \* history: batch positions at which get_marine_alerts ran
    wave_queries,    \* history: how the last _fetch_wave_data was answered
    advisory_queries,   \* history: batch positions of the get_oahu_advisories calls
    fetched_alerts,  \* history: the alert list obtained in this pass
    top_n,           \* ranker: the top_n argument of the pass
    digest,          \* digest: the DailyDigest returned, <<>> before
    query,           \* the catalog query made (rank_coast, get_best_sites, the
                     \* seasonal queries): its arguments and answer, else <<>>
    circuit_breaker, \* pacioos_client._circuit_breaker, shared by every client
    pacioos_cache,   \* per client, the locations with a row in its response cache
    pacioos_calls    \* history: the get_wave_data calls of the process, in order

scorerVars == <<inputs, result, previous, calls>>
clientVars == <<circuit_breaker, pacioos_cache, pacioos_calls>>
rankerVars == <<pc, caller, sites, idx, min_score, ranked_sites, conditions,
                marine_alerts_cache, advisories_cache, clock, log,
                alert_queries, wave_queries, advisory_queries, fetched_alerts, top_n, digest,
          query>>
vars == <<inputs, result, previous, calls, pc, caller, sites, idx, min_score, ranked_sites,
          conditions, marine_alerts_cache, advisories_cache, clock, log,
          alert_queries, wave_queries, advisory_queries, fetched_alerts, top_n, digest,
          query, circuit_breaker, pacioos_cache, pacioos_calls>>

None == <<>>
Some(v) == <<v>>
IsNone(o) == o = <<>>
Val(o) == o[1]

(***************************************************************************)
(* Messages: a gate reason, a warning or a summary is a record holding the *)
(* fixed text of the f-string and the numbers interpolated into it.        *)
(***************************************************************************)
Msg(text, args) == [text |-> text, args |-> args]

Min(a, b) == IF a <= b THEN a ELSE b
Max(a, b) == IF a >= b THEN a ELSE b
Abs(a) == IF a < 0 THEN -a ELSE a

\* every component score is a multiple of 1/SCALE: 45 (WPI and discharge
\* slopes), 19 (rainfall slope), 2 (offshore factor), 10 (cross-shore 0.9)
SCALE == 45 * 19 * 2

(***************************************************************************)
(* Scoring engine: src/core/scorer.py                                      *)
(***************************************************************************)
WEIGHT_WAVE_POWER == 7      \* 0.35, in twentieths
WEIGHT_WIND == 5            \* 0.25
WEIGHT_VISIBILITY == 4      \* 0.20
WEIGHT_TIDE == 2            \* 0.10
WEIGHT_TIME == 2            \* 0.10
\* the unit the weights are held in: they sum to 1.0
WEIGHT_UNIT == WEIGHT_WAVE_POWER + WEIGHT_WIND + WEIGHT_VISIBILITY + WEIGHT_TIDE + WEIGHT_TIME

WPI_EXCELLENT == 5
WPI_POOR == 50
WIND_CALM == 5
WIND_STRONG == 25
DISCHARGE_LOW == 5
DISCHARGE_HIGH == 50
RAINFALL_NONE == 1          \* 0.1 inch, in tenths
RAINFALL_HEAVY == 20        \* 2.0 inches, in tenths
MAX_WAVE_HEIGHT_FT == 60    \* 6.0 ft, in tenths
DIVEABLE_MIN == 40

\* round(x, 1) of the rational n/d >= 0, in tenths (Python rounds half to even)
Round1(n, d) ==
    LET q == (n * 10) \div d
        r == (n * 10) % d
    IN  IF 2 * r < d THEN q
        ELSE IF 2 * r > d THEN q + 1
        ELSE IF q % 2 = 0 THEN q ELSE q + 1

\* str.lower() / str.upper() on the labels the model uses
Lower(s) ==
    CASE s = "High" -> "high"
      [] s = "Low" -> "low"
      [] s = "Rising" -> "rising"
      [] s = "Falling" -> "falling"
      [] s = "High Surf Warning" -> "high surf warning"
      [] s = "High Surf Advisory" -> "high surf advisory"
      [] s = "North_Shore" -> "north_shore"
      [] OTHER -> s

Upper(s) ==
    CASE s = "n" -> "N"
      [] s = "s" -> "S"
      [] OTHER -> s

\* the index without the checks on the sign of its arguments
wave_power_without_sign_checks(height_ft, period_s) ==
    IF IsNone(height_ft) \/ IsNone(period_s) THEN None
    ELSE Some(Val(height_ft) * Val(height_ft) * Val(period_s))

\* WPI = height^2 * period, in hundredths (height is in tenths of a foot)
calculate_wave_power_index(height_ft, period_s) ==
    IF IsNone(height_ft) \/ IsNone(period_s) THEN None
    ELSE IF Val(height_ft) < 0 \/ Val(period_s) <= 0 THEN None
    ELSE Some(Val(height_ft) * Val(height_ft) * Val(period_s))

BrownWaterGate ==
    [passed |-> FALSE,
     reason |-> Msg("Brown Water Advisory active - poor visibility and water quality", <<>>),
     gate_name |-> "brown_water_advisory"]

WaveHeightGate(h, max_height) ==
    [passed |-> FALSE,
     reason |-> Msg("Wave height exceeds safe threshold", <<h, max_height>>),
     gate_name |-> "wave_height_exceeded"]

\* `inputs.site_max_safe_height_ft or self.MAX_WAVE_HEIGHT_FT`: a threshold
\* of None or 0 is falsy and is replaced by the default
GateThreshold(inp) ==
    IF IsNone(inp.site_max_safe_height_ft) \/ Val(inp.site_max_safe_height_ft) = 0
    THEN MAX_WAVE_HEIGHT_FT
    ELSE Val(inp.site_max_safe_height_ft)

\* check_safety_gates without its first gate
gates_without_advisory_gate(inp) ==
    IF ~IsNone(inp.wave_height_ft) /\ Val(inp.wave_height_ft) > GateThreshold(inp)
    THEN <<WaveHeightGate(Val(inp.wave_height_ft), GateThreshold(inp))>>
    ELSE <<>>

\* check_safety_gates with the high-surf gate of the module docstring
gates_with_high_surf_gate(inp) ==
    (IF inp.high_surf_warning
     THEN <<[passed |-> FALSE,
             reason |-> Msg("High Surf Warning in effect - dangerous conditions", <<>>),
             gate_name |-> "high_surf_warning"]>>
     ELSE <<>>)
    \o (IF inp.brown_water_advisory THEN <<BrownWaterGate>> ELSE <<>>)
    \o (IF ~IsNone(inp.wave_height_ft) /\ Val(inp.wave_height_ft) > GateThreshold(inp)
        THEN <<WaveHeightGate(Val(inp.wave_height_ft), GateThreshold(inp))>>
        ELSE <<>>)

\* the list of failed gates, in check order; all_passed is Len(..) = 0
check_safety_gates(inp) ==
    LET max_height == GateThreshold(inp)
        gate1 == IF inp.brown_water_advisory THEN <<BrownWaterGate>> ELSE <<>>
        gate2 == IF ~IsNone(inp.wave_height_ft) /\ Val(inp.wave_height_ft) > max_height
                 THEN <<WaveHeightGate(Val(inp.wave_height_ft), max_height)>>
                 ELSE <<>>
    IN  gate1 \o gate2

\* the wave score with the line continued past WPI_POOR
wave_score_unclamped(wpi) ==
    IF IsNone(wpi) THEN 50 * SCALE
    ELSE IF Val(wpi) <= WPI_EXCELLENT * 100 THEN 100 * SCALE
    ELSE ((WPI_POOR * 100 - Val(wpi)) * SCALE) \div (WPI_POOR - WPI_EXCELLENT)

score_wave_power(wpi) ==
    IF IsNone(wpi) THEN 50 * SCALE
    ELSE IF Val(wpi) <= WPI_EXCELLENT * 100 THEN 100 * SCALE
    ELSE IF Val(wpi) >= WPI_POOR * 100 THEN 0
    ELSE ((WPI_POOR * 100 - Val(wpi)) * SCALE) \div (WPI_POOR - WPI_EXCELLENT)

exposure_map(site_exposure) ==
    CASE site_exposure = "N" -> 0
      [] site_exposure = "NNE" -> 1
      [] site_exposure = "NE" -> 2
      [] site_exposure = "ENE" -> 3
      [] site_exposure = "E" -> 4
      [] site_exposure = "ESE" -> 5
      [] site_exposure = "SE" -> 6
      [] site_exposure = "SSE" -> 7
      [] site_exposure = "S" -> 8
      [] site_exposure = "SSW" -> 9
      [] site_exposure = "SW" -> 10
      [] site_exposure = "WSW" -> 11
      [] site_exposure = "W" -> 12
      [] site_exposure = "WNW" -> 13
      [] site_exposure = "NW" -> 14
      [] site_exposure = "NNW" -> 15
      [] OTHER -> 0

RECURSIVE NormalizeDiff(_)
NormalizeDiff(diff) ==
    IF diff > 8 THEN NormalizeDiff(diff - 16)
    ELSE IF diff < -8 THEN NormalizeDiff(diff + 16)
    ELSE diff

\* the factor with its sign turned round
offshore_factor_reversed(wind_direction, site_exposure) ==
    LET site_facing == exposure_map(Upper(site_exposure))
        diff == NormalizeDiff(wind_direction - site_facing)
    IN  Max(-4, Min(4, 4 - Abs(diff)))

\* offshore factor in quarters: 4 = +1.0 (offshore), -4 = -1.0 (onshore)
calculate_offshore_factor(wind_direction, site_exposure) ==
    LET site_facing == exposure_map(Upper(site_exposure))
        diff == NormalizeDiff(wind_direction - site_facing)
    IN  Max(-4, Min(4, Abs(diff) - 4))

\* score_wind without the clamps to [0, 100]
wind_score_unclamped(wind_speed_mph, wind_direction_deg, site_exposure_primary) ==
    IF IsNone(wind_speed_mph) THEN <<50 * SCALE, "unknown">>
    ELSE
      LET speed == Val(wind_speed_mph)
          base == IF speed <= WIND_CALM THEN 100 * SCALE
                  ELSE IF speed >= WIND_STRONG THEN 20 * SCALE
                  ELSE 100 * SCALE
                       - (80 * (speed - WIND_CALM) * SCALE) \div (WIND_STRONG - WIND_CALM)
      IN  IF IsNone(wind_direction_deg) \/ IsNone(site_exposure_primary)
          THEN <<base, "variable">>
          ELSE
            LET f4 == calculate_offshore_factor(Val(wind_direction_deg),
                                                Val(site_exposure_primary))
            IN  IF f4 > 2
                THEN <<base + (f4 * 30 * SCALE) \div 4, "offshore">>
                ELSE IF f4 < -2
                THEN <<base - (Abs(f4) * (40 + speed * 2) * SCALE) \div 4, "onshore">>
                ELSE <<(base * 9) \div 10, "cross-shore">>

\* <<score * SCALE, wind_type>>
score_wind(wind_speed_mph, wind_direction_deg, site_exposure_primary) ==
    IF IsNone(wind_speed_mph) THEN <<50 * SCALE, "unknown">>
    ELSE
      LET speed == Val(wind_speed_mph)
          base == IF speed <= WIND_CALM THEN 100 * SCALE
                  ELSE IF speed >= WIND_STRONG THEN 20 * SCALE
                  ELSE 100 * SCALE
                       - (80 * (speed - WIND_CALM) * SCALE) \div (WIND_STRONG - WIND_CALM)
      IN  IF IsNone(wind_direction_deg) \/ IsNone(site_exposure_primary)
          THEN <<Max(0, Min(100 * SCALE, base)), "variable">>
          ELSE
            LET f4 == calculate_offshore_factor(Val(wind_direction_deg),
                                                Val(site_exposure_primary))
            IN  IF f4 > 2
                THEN <<Max(0, Min(100 * SCALE, Min(100 * SCALE, base + (f4 * 30 * SCALE) \div 4))),
                       "offshore">>
                ELSE IF f4 < -2
                THEN <<Max(0, Min(100 * SCALE,
                           Max(0, base - (Abs(f4) * (40 + speed * 2) * SCALE) \div 4))),
                       "onshore">>
                ELSE <<Max(0, Min(100 * SCALE, (base * 9) \div 10)), "cross-shore">>

RainfallScore(rainfall_48h) ==
    IF rainfall_48h <= RAINFALL_NONE THEN 100 * SCALE
    ELSE IF rainfall_48h >= RAINFALL_HEAVY THEN 0
    ELSE (100 * (RAINFALL_HEAVY - rainfall_48h) * SCALE) \div (RAINFALL_HEAVY - RAINFALL_NONE)

DischargeScore(discharge_cfs) ==
    IF discharge_cfs <= DISCHARGE_LOW THEN 100 * SCALE
    ELSE IF discharge_cfs >= DISCHARGE_HIGH THEN 0
    ELSE (100 * (DISCHARGE_HIGH - discharge_cfs) * SCALE) \div (DISCHARGE_HIGH - DISCHARGE_LOW)

score_visibility(rainfall_48h, discharge_cfs, brown_water_advisory) ==
    IF brown_water_advisory THEN 10 * SCALE
    ELSE IF IsNone(rainfall_48h) /\ IsNone(discharge_cfs) THEN 70 * SCALE
    ELSE IF IsNone(discharge_cfs) THEN RainfallScore(Val(rainfall_48h))
    ELSE IF IsNone(rainfall_48h) THEN DischargeScore(Val(discharge_cfs))
    ELSE Min(RainfallScore(Val(rainfall_48h)), DischargeScore(Val(discharge_cfs)))

score_tide(tide_phase, site_optimal_tide) ==
    IF IsNone(site_optimal_tide) \/ site_optimal_tide = Some("any") THEN 100 * SCALE
    ELSE IF IsNone(tide_phase) THEN 70 * SCALE
    ELSE
      LET phase == Lower(Val(tide_phase))
          site_optimal == Lower(Val(site_optimal_tide))
      IN  IF site_optimal = phase THEN 100 * SCALE
          ELSE IF site_optimal = "high"
          THEN (IF phase = "rising" THEN 80 * SCALE
                ELSE IF phase = "falling" THEN 60 * SCALE
                ELSE 30 * SCALE)
          ELSE IF site_optimal = "low"
          THEN (IF phase = "falling" THEN 80 * SCALE
                ELSE IF phase = "rising" THEN 60 * SCALE
                ELSE 30 * SCALE)
          ELSE 70 * SCALE

\* score_time_of_day with each band closed at its upper hour
time_bands_closed_above(hour) ==
    IF 5 <= hour /\ hour <= 7 THEN 100 * SCALE
    ELSE IF 7 <= hour /\ hour <= 9 THEN 95 * SCALE
    ELSE IF 9 <= hour /\ hour <= 11 THEN 80 * SCALE
    ELSE IF 11 <= hour /\ hour <= 14 THEN 60 * SCALE
    ELSE IF 14 <= hour /\ hour <= 17 THEN 50 * SCALE
    ELSE IF 17 <= hour /\ hour <= 19 THEN 70 * SCALE
    ELSE 40 * SCALE

\* hour is evaluation_time.hour, or datetime.now().hour when no time is given
score_time_of_day(hour) ==
    IF 5 <= hour /\ hour < 7 THEN 100 * SCALE
    ELSE IF 7 <= hour /\ hour < 9 THEN 95 * SCALE
    ELSE IF 9 <= hour /\ hour < 11 THEN 80 * SCALE
    ELSE IF 11 <= hour /\ hour < 14 THEN 60 * SCALE
    ELSE IF 14 <= hour /\ hour < 17 THEN 50 * SCALE
    ELSE IF 17 <= hour /\ hour < 19 THEN 70 * SCALE
    ELSE 40 * SCALE

\* score is the unrounded total * SCALE * WEIGHT_UNIT
score_to_grade(score) ==
    IF score >= 85 * SCALE * WEIGHT_UNIT THEN "A"
    ELSE IF score >= 70 * SCALE * WEIGHT_UNIT THEN "B"
    ELSE IF score >= 55 * SCALE * WEIGHT_UNIT THEN "C"
    ELSE IF score >= DIVEABLE_MIN * SCALE * WEIGHT_UNIT THEN "D"
    ELSE "F"

GradeDescription(grade) ==
    CASE grade = "A" -> "Excellent conditions"
      [] grade = "B" -> "Good conditions"
      [] grade = "C" -> "Fair conditions - some challenges"
      [] grade = "D" -> "Poor conditions - experienced divers only"
      [] OTHER -> "Unsafe - diving not recommended"

generate_summary(grade, wpi, inp, wind_type) ==
    <<Msg(GradeDescription(grade), <<>>)>>
    \o (IF IsNone(inp.wave_height_ft) THEN <<>>
        ELSE <<Msg("Waves", <<Val(inp.wave_height_ft)>>)>>)
    \o (IF IsNone(inp.wind_speed_mph) THEN <<>>
        ELSE <<Msg(IF wind_type = "offshore" THEN "Wind offshore"
                   ELSE IF wind_type = "onshore" THEN "Wind onshore"
                   ELSE "Wind", <<Val(inp.wind_speed_mph)>>)>>)
    \o (IF IsNone(wpi) THEN <<>>
        ELSE IF Val(wpi) < 10 * 100 THEN <<Msg("Calm seas", <<>>)>>
        ELSE IF Val(wpi) < 25 * 100 THEN <<Msg("Moderate swells", <<>>)>>
        ELSE <<Msg("Large swells", <<>>)>>)

Reasons(gates) == [i \in 1..Len(gates) |-> gates[i].reason]

\* the warnings without the one for the high-surf warning
warnings_without_high_surf(inp, wpi, wind_type, visibility_score) ==
    (IF inp.high_surf_advisory
     THEN <<Msg("High Surf Advisory in effect - use caution", <<>>)>> ELSE <<>>)
    \o (IF visibility_score < 50 * SCALE
        THEN <<Msg("Reduced visibility likely due to recent rainfall or runoff", <<>>)>>
        ELSE <<>>)

\* the warnings with the strong-wind test made on its own, not as the
\* alternative of the onshore test
warnings_with_both_wind_notes(inp, wpi, wind_type, visibility_score) ==
    (IF inp.high_surf_warning
     THEN <<Msg("High Surf Warning in effect for some areas", <<>>)>> ELSE <<>>)
    \o (IF inp.high_surf_advisory
        THEN <<Msg("High Surf Advisory in effect - use caution", <<>>)>> ELSE <<>>)
    \o (IF ~IsNone(wpi) /\ Val(wpi) > 20 * 100
        THEN <<Msg("Elevated wave power index - challenging conditions", <<Val(wpi)>>)>>
        ELSE <<>>)
    \o (IF wind_type = "onshore" /\ ~IsNone(inp.wind_speed_mph)
           /\ Val(inp.wind_speed_mph) # 0 /\ Val(inp.wind_speed_mph) > 10
        THEN <<Msg("Onshore winds - expect choppy conditions", <<Val(inp.wind_speed_mph)>>)>>
        ELSE <<>>)
    \o (IF ~IsNone(inp.wind_speed_mph) /\ Val(inp.wind_speed_mph) > 20
        THEN <<Msg("Strong winds", <<Val(inp.wind_speed_mph)>>)>>
        ELSE <<>>)
    \o (IF visibility_score < 50 * SCALE
        THEN <<Msg("Reduced visibility likely due to recent rainfall or runoff", <<>>)>>
        ELSE <<>>)

ScoreWarnings(inp, wpi, wind_type, visibility_score) ==
    (IF inp.high_surf_warning
     THEN <<Msg("High Surf Warning in effect for some areas", <<>>)>> ELSE <<>>)
    \o (IF inp.high_surf_advisory
        THEN <<Msg("High Surf Advisory in effect - use caution", <<>>)>> ELSE <<>>)
    \o (IF ~IsNone(wpi) /\ Val(wpi) > 20 * 100
        THEN <<Msg("Elevated wave power index - challenging conditions", <<Val(wpi)>>)>>
        ELSE <<>>)
    \o (IF wind_type = "onshore" /\ ~IsNone(inp.wind_speed_mph)
           /\ Val(inp.wind_speed_mph) # 0 /\ Val(inp.wind_speed_mph) > 10
        THEN <<Msg("Onshore winds - expect choppy conditions", <<Val(inp.wind_speed_mph)>>)>>
        ELSE IF ~IsNone(inp.wind_speed_mph) /\ Val(inp.wind_speed_mph) > 20
        THEN <<Msg("Strong winds", <<Val(inp.wind_speed_mph)>>)>>
        ELSE <<>>)
    \o (IF visibility_score < 50 * SCALE
        THEN <<Msg("Reduced visibility likely due to recent rainfall or runoff", <<>>)>>
        ELSE <<>>)

UnsafeResult(inp, failed_gates) ==
    [total_score |-> 0,
     grade |-> "F",
     diveable |-> FALSE,
     wave_power_score |-> 0,
     wind_score |-> 0,
     visibility_score |-> 0,
     tide_score |-> 0,
     time_score |-> 0,
     safety_gates_passed |-> FALSE,
     failed_gates |-> failed_gates,
     wave_power_index |-> calculate_wave_power_index(inp.wave_height_ft, inp.wave_period_s),
     wind_type |-> "unknown",
     summary |-> <<Msg("CONDITIONS UNSAFE", <<>>)>> \o Reasons(failed_gates),
     warnings |-> Reasons(failed_gates)]

ScoredResult(inp, now) ==
    LET wpi == calculate_wave_power_index(inp.wave_height_ft, inp.wave_period_s)
        wave_power_score == score_wave_power(wpi)
        wind == score_wind(inp.wind_speed_mph, inp.wind_direction_deg,
                           inp.site_swell_exposure_primary)
        wind_score == wind[1]
        wind_type == wind[2]
        visibility_score == score_visibility(inp.rainfall_48h_inches,
                                             inp.stream_discharge_cfs,
                                             inp.brown_water_advisory)
        tide_score == score_tide(inp.tide_phase, inp.site_optimal_tide)
        time_score == score_time_of_day(IF IsNone(inp.evaluation_time) THEN now
                                        ELSE Val(inp.evaluation_time))
        total_score == wave_power_score * WEIGHT_WAVE_POWER
                       + wind_score * WEIGHT_WIND
                       + visibility_score * WEIGHT_VISIBILITY
                       + tide_score * WEIGHT_TIDE
                       + time_score * WEIGHT_TIME
        grade == score_to_grade(total_score)
    IN  [total_score |-> Round1(total_score, SCALE * WEIGHT_UNIT),
         grade |-> grade,
         diveable |-> total_score >= DIVEABLE_MIN * SCALE * WEIGHT_UNIT,
         wave_power_score |-> Round1(wave_power_score, SCALE),
         wind_score |-> Round1(wind_score, SCALE),
         visibility_score |-> Round1(visibility_score, SCALE),
         tide_score |-> Round1(tide_score, SCALE),
         time_score |-> Round1(time_score, SCALE),
         safety_gates_passed |-> TRUE,
         failed_gates |-> <<>>,
         wave_power_index |-> IF IsNone(wpi) \/ Val(wpi) = 0 THEN None ELSE wpi,
         wind_type |-> wind_type,
         summary |-> generate_summary(grade, wpi, inp, wind_type),
         warnings |-> ScoreWarnings(inp, wpi, wind_type, visibility_score)]

\* calculate_score reading the clock even when a time is supplied
score_by_the_clock(inp, now) ==
    LET failed_gates == check_safety_gates(inp)
    IN  IF Len(failed_gates) # 0 THEN UnsafeResult(inp, failed_gates)
        ELSE ScoredResult([inp EXCEPT !.evaluation_time = None], now)

\* now is the hour datetime.now() gives when inputs carry no evaluation time
calculate_score(inp, now) ==
    LET failed_gates == check_safety_gates(inp)
    IN  IF Len(failed_gates) # 0 THEN UnsafeResult(inp, failed_gates)
        ELSE ScoredResult(inp, now)

(***************************************************************************)
(* Location catalog: src/core/site.py.  The catalog is input data; the     *)
(* model's locations differ in the parameters the ranker reads.            *)
(***************************************************************************)
MaxSites == 2          \* locations in a batch

DiveSite(i) ==
    [id |-> i,
     name |-> IF i % 3 = 0 THEN "Hanauma Bay" ELSE "Electric Beach",
     coast |-> IF i % 2 = 1 THEN "south_shore" ELSE "north_shore",
     nearest_buoy |-> IF i % 2 = 1 THEN Some("51201") ELSE None,
     nearest_streamgage |-> IF i % 3 = 1 THEN Some("16240500") ELSE None,
     max_safe_wave_height |-> IF i % 2 = 1 THEN 60 ELSE 40,
     optimal_tide |-> IF i % 3 = 2 THEN "high" ELSE "any",
     swell_exposure_primary |-> IF i % 2 = 1 THEN "S" ELSE "N",
     skill_level |-> IF i % 3 = 1 THEN "advanced"
                     ELSE IF i % 3 = 2 THEN "novice" ELSE "beginner",
     spearfishing |-> IF i % 2 = 1 THEN "allowed" ELSE "prohibited",
     seasonal_window |-> IF i % 3 = 1 THEN [start_month |-> 1, end_month |-> 12]
                         ELSE IF i % 3 = 2 THEN [start_month |-> 5, end_month |-> 9]
                         ELSE [start_month |-> 10, end_month |-> 4]]

\* site_db._sites.values(): the catalog in the order _load_sites fills it,
\* the north_shore locations before the south_shore ones
Catalog == <<2, 1, 3>>

\* a window read as a plain range even when it wraps the year boundary
in_season_without_wrap(window, month) ==
    window.start_month <= month /\ month <= window.end_month

\* SeasonalWindow.is_in_season(month)
is_in_season(window, month) ==
    IF window.start_month <= window.end_month
    THEN window.start_month <= month /\ month <= window.end_month
    ELSE month >= window.start_month \/ month <= window.end_month

allows_spearfishing(site) == site.spearfishing = "allowed"

\* site_db.get_in_season_sites() in the month datetime.now() reports
get_in_season_sites(month) ==
    LET InSeason(i) == is_in_season(DiveSite(i).seasonal_window, month)
    IN  SelectSeq(Catalog, InSeason)

\* site_db.get_sites_by_coast(coast): _coasts.get(coast.lower(), [])
get_sites_by_coast(coast) ==
    LET Tagged(i) == DiveSite(i).coast = Lower(coast)
    IN  SelectSeq(Catalog, Tagged)

\* order.index(level), 0 where Python raises ValueError
SkillIndex(level) ==
    CASE level = "beginner" -> 1
      [] level = "intermediate" -> 2
      [] level = "advanced" -> 3
      [] level = "expert" -> 4
      [] OTHER -> 0

\* _skill_level_ok with an unknown label on either side refused
skill_level_strict(site_level, max_level) ==
    /\ SkillIndex(site_level) # 0
    /\ SkillIndex(max_level) # 0
    /\ SkillIndex(site_level) <= SkillIndex(max_level)

skill_level_ok(site_level, max_level) ==
    IF SkillIndex(site_level) = 0 \/ SkillIndex(max_level) = 0 THEN TRUE
    ELSE SkillIndex(site_level) <= SkillIndex(max_level)

\* the batches handed to rank_sites: the first n catalog locations
Batches == {[i \in 1..n |-> i] : n \in 0..MaxSites}

(***************************************************************************)
(* Snapshot assembler: src/core/ranker.py                                  *)
(***************************************************************************)
\* how a call to a collaborator ends: a reading, an answer without data,
\* the client's own error class, or any other exception
Outcomes == {"reading", "empty", "error", "crash"}

\* the outcomes to draw for a call: one only when the call is not made
CallOutcomes(called) == IF called THEN Outcomes ELSE {"empty"}

EnvironmentalConditions(now) ==
    [wave_height_ft |-> None, wave_period_s |-> None, swell_direction_deg |-> None,
     wave_source |-> "",
     wind_speed_mph |-> None, wind_direction_deg |-> None,
     tide_phase |-> None, water_level_ft |-> None,
     next_high_tide |-> None, next_low_tide |-> None,
     stream_discharge_cfs |-> None,
     brown_water_advisory |-> FALSE, advisory_details |-> None,
     high_surf_warning |-> FALSE, high_surf_advisory |-> FALSE,
     marine_alerts |-> <<>>,
     fetch_time |-> now,
     errors |-> <<>>]

\* what the collaborators answer when they have a reading
BuoyReading == [wave_height_ft |-> 20, swell_period_s |-> 10, mean_direction_deg |-> 8]
PacioosReading == [wave_height_ft |-> 50, period_s |-> 8, direction_deg |-> 14]
ForecastReading == [current_wind_mph |-> 12, current_wind_dir |-> "N"]
TideReading == [phase |-> "rising", current_level_ft |-> 12,
                next_high |-> "14:30", next_low |-> "20:45"]
DischargeReading == [discharge_cfs |-> 20]

HighSurfWarning == [event |-> "High Surf Warning", headline |-> "High Surf Warning until 6 PM"]
HighSurfAdvisory == [event |-> "High Surf Advisory", headline |-> "High Surf Advisory"]
AlertAnswers == {<<>>, <<HighSurfWarning>>, <<HighSurfAdvisory>>}
Advisory == [beach |-> "Waikiki", reason |-> "Brown water"]
AdvisoryAnswers == {<<>>, <<Advisory>>}

\* a fetch step gives the snapshot it leaves and whether an exception left it
Step(cond, raised) == [conditions |-> cond, raised |-> raised]
WithError(cond, text) == [cond EXCEPT !.errors = Append(@, text)]

PacioosFallback(cond, pacioos) ==
    CASE pacioos = "reading" ->
           Step([cond EXCEPT !.wave_height_ft = Some(PacioosReading.wave_height_ft),
                             !.wave_period_s = Some(PacioosReading.period_s),
                             !.swell_direction_deg = Some(PacioosReading.direction_deg),
                             !.wave_source = "pacioos"], FALSE)
      [] pacioos = "empty" -> Step(cond, FALSE)
      [] pacioos = "error" -> Step(WithError(cond, "PacIOOS error"), FALSE)
      [] OTHER -> Step(cond, TRUE)

fetch_wave_data(site, cond, buoy, pacioos) ==
    IF ~IsNone(site.nearest_buoy)
    THEN CASE buoy = "reading" ->
                Step([cond EXCEPT !.wave_height_ft = Some(BuoyReading.wave_height_ft),
                                  !.wave_period_s = Some(BuoyReading.swell_period_s),
                                  !.swell_direction_deg = Some(BuoyReading.mean_direction_deg),
                                  !.wave_source = "buoy"], FALSE)
           [] buoy = "empty" -> PacioosFallback(cond, pacioos)
           [] buoy = "error" -> PacioosFallback(WithError(cond, "Buoy error"), pacioos)
           [] OTHER -> Step(cond, TRUE)
    ELSE PacioosFallback(cond, pacioos)

\* which of the two wave sources _fetch_wave_data called for a location and
\* how each call ended, "none" for a source it did not call
WaveQueries(site, buoy, pacioos) ==
    [site |-> site.id,
     buoy |-> IF IsNone(site.nearest_buoy) THEN "none" ELSE buoy,
     pacioos |-> IF IsNone(site.nearest_buoy) \/ buoy \in {"empty", "error"}
                 THEN pacioos ELSE "none"]

wind_dir_to_degrees(direction) ==
    CASE Upper(direction) = "N" -> Some(0)
      [] Upper(direction) = "NE" -> Some(2)
      [] Upper(direction) = "E" -> Some(4)
      [] Upper(direction) = "SE" -> Some(6)
      [] Upper(direction) = "S" -> Some(8)
      [] Upper(direction) = "SW" -> Some(10)
      [] Upper(direction) = "W" -> Some(12)
      [] Upper(direction) = "NW" -> Some(14)
      [] OTHER -> None

fetch_weather_data(site, cond, nws) ==
    CASE nws = "reading" ->
           Step([cond EXCEPT !.wind_speed_mph = Some(ForecastReading.current_wind_mph),
                             !.wind_direction_deg =
                                 wind_dir_to_degrees(ForecastReading.current_wind_dir)], FALSE)
      [] nws = "empty" -> Step(cond, FALSE)
      [] nws = "error" -> Step(WithError(cond, "NWS error"), FALSE)
      [] OTHER -> Step(cond, TRUE)

fetch_tide_data(site, cond, tides) ==
    CASE tides = "reading" ->
           Step([cond EXCEPT !.tide_phase = Some(TideReading.phase),
                             !.water_level_ft = Some(TideReading.current_level_ft),
                             !.next_high_tide = Some(TideReading.next_high),
                             !.next_low_tide = Some(TideReading.next_low)], FALSE)
      [] tides = "empty" -> Step(cond, FALSE)
      [] tides = "error" -> Step(WithError(cond, "Tides error"), FALSE)
      [] OTHER -> Step(cond, TRUE)

fetch_discharge_data(site, cond, usgs) ==
    IF IsNone(site.nearest_streamgage) THEN Step(cond, FALSE)
    ELSE CASE usgs = "reading" ->
                Step([cond EXCEPT !.stream_discharge_cfs =
                                      Some(DischargeReading.discharge_cfs)], FALSE)
           [] usgs = "empty" -> Step(cond, FALSE)
           [] usgs = "error" -> Step(WithError(cond, "USGS error"), FALSE)
           [] OTHER -> Step(cond, TRUE)

\* the loop over conditions.marine_alerts that sets the two surf flags
RECURSIVE SurfFlags(_, _)
SurfFlags(cond, alerts) ==
    IF alerts = <<>> THEN cond
    ELSE LET event == Lower(Head(alerts).event)
             next == IF event = "high surf warning"
                     THEN [cond EXCEPT !.high_surf_warning = TRUE]
                     ELSE IF event = "high surf advisory"
                     THEN [cond EXCEPT !.high_surf_advisory = TRUE]
                     ELSE cond
         IN  SurfFlags(next, Tail(alerts))

\* how a query for a region-wide list ends: with the list, with the client's
\* own error class, or with any other exception
ListOutcomes(answers) ==
    {[kind |-> "reading", answer |-> a] : a \in answers}
    \cup {[kind |-> k, answer |-> <<>>] : k \in {"error", "crash"}}

ListCallOutcomes(answers, called) ==
    IF called THEN ListOutcomes(answers) ELSE {[kind |-> "reading", answer |-> <<>>]}

\* the alert provider's answer taken whatever the cache holds
alerts_part_ignoring_cache(cond, cache, nws) ==
    [conditions |-> cond, cache |-> Some(nws.answer), raised |-> FALSE]

\* _fetch_alerts in three parts.  nws is how nws.get_marine_alerts() ends,
\* cwb how cwb.get_oahu_advisories() ends, check what
\* cwb.check_site_advisory() does: "none", "advisory" or "raise".
\* Each part gives the snapshot, the cache and whether an exception left.
AlertsPart(cond, cache, nws) ==
    IF ~IsNone(cache) THEN [conditions |-> cond, cache |-> cache, raised |-> FALSE]
    ELSE IF nws.kind = "crash" THEN [conditions |-> cond, cache |-> cache, raised |-> TRUE]
    ELSE IF nws.kind = "error"
    THEN [conditions |-> WithError(cond, "Alerts error"), cache |-> Some(<<>>),
          raised |-> FALSE]
    ELSE [conditions |-> cond, cache |-> Some(nws.answer), raised |-> FALSE]

AdvisoriesPart(cond, cache, cwb) ==
    IF ~IsNone(cache) THEN [conditions |-> cond, cache |-> cache, raised |-> FALSE]
    ELSE IF cwb.kind = "crash" THEN [conditions |-> cond, cache |-> cache, raised |-> TRUE]
    ELSE IF cwb.kind = "error"
    THEN [conditions |-> WithError(cond, "CWB error"), cache |-> Some(<<>>),
          raised |-> FALSE]
    ELSE [conditions |-> cond, cache |-> Some(cwb.answer), raised |-> FALSE]

\* cwb.check_site_advisory(site.name) is called outside any try block
CheckSiteAdvisory(cond, check) ==
    CASE check = "advisory" ->
           Step([cond EXCEPT !.brown_water_advisory = TRUE,
                             !.advisory_details = Some(Advisory.reason)], FALSE)
      [] check = "none" -> Step(cond, FALSE)
      [] OTHER -> Step(cond, TRUE)

\* gives the snapshot, both caches, whether the alert provider was queried,
\* how many times get_oahu_advisories was called (by _fetch_alerts when its
\* cache is empty, and by every check_site_advisory) and whether an exception
\* left the method
fetch_alerts(site, cond, alerts_cache, adv_cache, nws, cwb, check) ==
    LET a == AlertsPart(cond, alerts_cache, nws)
        withAlerts == SurfFlags([a.conditions EXCEPT !.marine_alerts = Val(a.cache)],
                                Val(a.cache))
        b == AdvisoriesPart(withAlerts, adv_cache, cwb)
        c == CheckSiteAdvisory(b.conditions, check)
        queried == IsNone(alerts_cache)
        listed == IF IsNone(adv_cache) THEN 1 ELSE 0
    IN  IF a.raised
        THEN [conditions |-> cond, alerts_cache |-> a.cache, adv_cache |-> adv_cache,
              queried |-> queried, advisory_calls |-> 0, raised |-> TRUE]
        ELSE IF b.raised
        THEN [conditions |-> withAlerts, alerts_cache |-> a.cache, adv_cache |-> b.cache,
              queried |-> queried, advisory_calls |-> listed, raised |-> TRUE]
        ELSE [conditions |-> c.conditions, alerts_cache |-> a.cache, adv_cache |-> b.cache,
              queried |-> queried, advisory_calls |-> listed + 1, raised |-> c.raised]

(***************************************************************************)
(* Ranking engine: src/core/ranker.py                                      *)
(***************************************************************************)
ScoringInputFor(site, cond) ==
    [wave_height_ft |-> cond.wave_height_ft,
     wave_period_s |-> cond.wave_period_s,
     swell_direction_deg |-> cond.swell_direction_deg,
     wind_speed_mph |-> cond.wind_speed_mph,
     wind_direction_deg |-> cond.wind_direction_deg,
     rainfall_48h_inches |-> None,
     stream_discharge_cfs |-> cond.stream_discharge_cfs,
     brown_water_advisory |-> cond.brown_water_advisory,
     tide_phase |-> cond.tide_phase,
     evaluation_time |-> Some(cond.fetch_time),
     high_surf_warning |-> cond.high_surf_warning,
     high_surf_advisory |-> cond.high_surf_advisory,
     site_max_safe_height_ft |-> Some(site.max_safe_wave_height),
     site_optimal_tide |-> Some(site.optimal_tide),
     site_swell_exposure_primary |-> Some(site.swell_exposure_primary)]

\* a RankedSite; of the score and the snapshot it keeps the fields that are
\* read after scoring (by rank_sites and by the digest)
RankedSite(site, score, cond) ==
    [site |-> site.id,
     score |-> [total_score |-> score.total_score, grade |-> score.grade,
                diveable |-> score.diveable,
                safety_gates_passed |-> score.safety_gates_passed],
     conditions |-> [wave_height_ft |-> cond.wave_height_ft,
                     wind_speed_mph |-> cond.wind_speed_mph,
                     marine_alerts |-> cond.marine_alerts],
     rank |-> 0]

score_site(site, cond, now) ==
    RankedSite(site, calculate_score(ScoringInputFor(site, cond), now), cond)

\* the list left in the order the locations were scored
left_unsorted(list) == list

\* list.sort(key=total_score, reverse=True): stable, descending
RECURSIVE InsertDesc(_, _)
InsertDesc(sorted, e) ==
    IF sorted = <<>> THEN <<e>>
    ELSE IF Head(sorted).score.total_score >= e.score.total_score
         THEN <<Head(sorted)>> \o InsertDesc(Tail(sorted), e)
         ELSE <<e>> \o sorted

RECURSIVE SortByScore(_)
SortByScore(list) ==
    IF list = <<>> THEN <<>>
    ELSE InsertDesc(SortByScore(SubSeq(list, 1, Len(list) - 1)), list[Len(list)])

AssignRanks(list) == [i \in 1..Len(list) |-> [list[i] EXCEPT !.rank = i]]

\* `if top_n: ranked_sites = ranked_sites[:top_n]`
Truncate(list, n) ==
    IF IsNone(n) \/ Val(n) = 0 THEN list
    ELSE SubSeq(list, 1, Min(Val(n), Len(list)))

(***************************************************************************)
(* rank_sites, one step per collaborator call.  An exception that leaves a *)
(* fetch step leaves fetch_conditions_for_site and score_site too and is   *)
(* caught by the `except Exception` of the loop in rank_sites.             *)
(***************************************************************************)
MinScores == {0, 500}
ClockHours == {6}
MaxTopN == 2           \* largest top_n argument tried
TopNs == {None} \cup {Some(n) : n \in 0..MaxTopN}

Site == DiveSite(sites[idx])
Cond == Val(conditions)

\* where the loop of rank_sites goes after the location at idx
NextSite ==
    /\ idx' = idx + 1
    /\ conditions' = IF idx < Len(sites) THEN Some(EnvironmentalConditions(clock)) ELSE None
    /\ pc' = IF idx < Len(sites) THEN "fetch_wave" ELSE "sort"

\* the loop of rank_sites without its try block: the exception leaves it
uncaught ==
    /\ log' = Append(log, [site |-> sites[idx], raised |-> TRUE, total_score |-> None])
    /\ pc' = "raised"
    /\ UNCHANGED <<idx, conditions, ranked_sites>>

\* `except Exception as e: logger.error(...)` in the loop of rank_sites
Caught ==
    /\ log' = Append(log, [site |-> sites[idx], raised |-> TRUE, total_score |-> None])
    /\ NextSite
    /\ UNCHANGED ranked_sites

\* score_site or fetch_conditions_for_site called from outside rank_sites:
\* no try block around it, the exception reaches the caller
Propagates ==
    /\ log' = Append(log, [site |-> sites[idx], raised |-> TRUE, total_score |-> None])
    /\ pc' = "raised"
    /\ UNCHANGED <<idx, conditions, ranked_sites>>

\* a fetch step that returned: go on to the next step of the assembler
Proceed(step, next) ==
    IF step.raised
    THEN IF caller = "direct" THEN Propagates ELSE Caught
    ELSE /\ conditions' = Some(step.conditions)
         /\ pc' = next
         /\ UNCHANGED <<idx, log, ranked_sites>>

\* rank_sites(sites, min_score=..., top_n=...) is called: the caches are
\* cleared and the loop starts
BeginPass(who, batch, ms) ==
    /\ caller' = who
    /\ sites' = batch
    /\ min_score' = ms
    /\ top_n' = None
    /\ marine_alerts_cache' = None
    /\ advisories_cache' = None
    /\ ranked_sites' = <<>>
    /\ log' = <<>>
    /\ alert_queries' = <<>>
    /\ wave_queries' = None
    /\ advisory_queries' = <<>>
    /\ fetched_alerts' = None
    /\ idx' = 1
    /\ conditions' = IF Len(batch) > 0 THEN Some(EnvironmentalConditions(clock)) ELSE None
    /\ pc' = IF Len(batch) > 0 THEN "fetch_wave" ELSE "sort"

RankSites ==
    /\ pc \in {"idle", "returned", "reported"}
    /\ \E batch \in Batches, ms \in MinScores : BeginPass("rank", batch, ms)
    /\ digest' = None
    /\ query' = None
    /\ UNCHANGED <<clock, scorerVars, clientVars>>

FetchWaveData ==
    /\ pc = "fetch_wave"
    /\ \E buoy \in CallOutcomes(~IsNone(Site.nearest_buoy)) :
           \E pacioos \in CallOutcomes(IsNone(Site.nearest_buoy)
                                        \/ buoy \in {"empty", "error"}) :
               /\ Proceed(fetch_wave_data(Site, Cond, buoy, pacioos), "fetch_weather")
               /\ wave_queries' = Some(WaveQueries(Site, buoy, pacioos))
    /\ UNCHANGED <<caller, sites, min_score, top_n, marine_alerts_cache, advisories_cache,
                   clock, alert_queries, advisory_queries,
                   fetched_alerts, digest, query, scorerVars, clientVars>>

FetchWeatherData ==
    /\ pc = "fetch_weather"
    /\ \E nws \in Outcomes : Proceed(fetch_weather_data(Site, Cond, nws), "fetch_tide")
    /\ wave_queries' = None
    /\ UNCHANGED <<caller, sites, min_score, top_n, marine_alerts_cache, advisories_cache,
                   clock, alert_queries, advisory_queries,
                   fetched_alerts, digest, query, scorerVars, clientVars>>

FetchTideData ==
    /\ pc = "fetch_tide"
    /\ \E tides \in Outcomes : Proceed(fetch_tide_data(Site, Cond, tides), "fetch_discharge")
    /\ UNCHANGED <<caller, sites, min_score, top_n, marine_alerts_cache, advisories_cache,
                   clock, alert_queries, advisory_queries,
                   wave_queries,
                   fetched_alerts, digest, query, scorerVars, clientVars>>

FetchDischargeData ==
    /\ pc = "fetch_discharge"
    /\ \E usgs \in CallOutcomes(~IsNone(Site.nearest_streamgage)) :
           Proceed(fetch_discharge_data(Site, Cond, usgs), "fetch_alerts")
    /\ UNCHANGED <<caller, sites, min_score, top_n, marine_alerts_cache, advisories_cache,
                   clock, alert_queries, advisory_queries,
                   wave_queries,
                   fetched_alerts, digest, query, scorerVars, clientVars>>

FetchAlerts ==
    /\ pc = "fetch_alerts"
    /\ \E nws \in ListCallOutcomes(AlertAnswers, IsNone(marine_alerts_cache)),
          cwb \in ListCallOutcomes(AdvisoryAnswers, IsNone(advisories_cache)),
          check \in {"none", "advisory", "raise"} :
           LET step == fetch_alerts(Site, Cond, marine_alerts_cache, advisories_cache,
                                    nws, cwb, check)
           IN  /\ marine_alerts_cache' = step.alerts_cache
               /\ advisories_cache' = step.adv_cache
               /\ alert_queries' = IF step.queried THEN Append(alert_queries, idx)
                                   ELSE alert_queries
               /\ fetched_alerts' = IF step.queried THEN step.alerts_cache
                                    ELSE fetched_alerts
               /\ advisory_queries' = advisory_queries
                                          \o [k \in 1..step.advisory_calls |-> idx]
               \* a direct fetch_conditions_for_site returns the snapshot
               /\ Proceed(step, IF caller = "direct"
                                    /\ Val(query).method = "fetch_conditions_for_site"
                                 THEN "returned" ELSE "score")
    /\ UNCHANGED <<caller, sites, min_score, top_n, clock, wave_queries, digest, query, scorerVars, clientVars>>

\* the scoring half of score_site and the min_score filter of rank_sites
ScoreSite ==
    /\ pc = "score"
    /\ LET ranked == score_site(Site, Cond, clock)
       IN  /\ ranked_sites' = IF ranked.score.total_score >= min_score
                              THEN Append(ranked_sites, ranked)
                              ELSE ranked_sites
           /\ log' = Append(log, [site |-> sites[idx], raised |-> FALSE,
                                  total_score |-> Some(ranked.score.total_score)])
    \* a direct score_site returns its RankedSite; the loop of rank_sites goes on
    /\ IF caller = "direct"
       THEN pc' = "returned" /\ UNCHANGED <<idx, conditions>>
       ELSE NextSite
    /\ UNCHANGED <<caller, sites, min_score, top_n, marine_alerts_cache, advisories_cache,
                   clock, alert_queries, advisory_queries,
                   wave_queries,
                   fetched_alerts, digest, query, scorerVars, clientVars>>

\* sort, assign ranks, truncate and return.  top_n is an argument of the
\* call; nothing reads it before this step, so it is drawn here.
SortAndReturn ==
    /\ pc = "sort"
    /\ \E n \in (CASE caller \in {"digest", "best"} -> {None}
                  [] caller = "coast" -> TopNs \ {None}
                  [] OTHER -> TopNs) :
           /\ top_n' = n
           /\ ranked_sites' = Truncate(AssignRanks(SortByScore(ranked_sites)), n)
    /\ pc' = CASE caller = "digest" -> "digest"
               [] caller = "best" -> "filter"
               [] OTHER -> "returned"
    /\ wave_queries' = None
    /\ UNCHANGED <<caller, sites, idx, min_score, conditions, marine_alerts_cache,
                   advisories_cache, clock, log, alert_queries, advisory_queries,
                   fetched_alerts, digest, query,
                   scorerVars, clientVars>>

(***************************************************************************)
(* Digest generator: src/digests/daily_digest.py                           *)
(***************************************************************************)
TOP_SITES_COUNT == 5
COAST_TOP_SITES == 3

\* site_db.coasts: the keys of _coasts, in the order _load_sites creates them
Coasts == <<"north_shore", "west_side", "south_shore", "southeast", "windward">>

COAST_DISPLAY_NAMES(coast) ==
    CASE coast = "north_shore" -> "North Shore"
      [] coast = "west_side" -> "West Side"
      [] coast = "south_shore" -> "South Shore"
      [] coast = "southeast" -> "Southeast"
      [] coast = "windward" -> "Windward"
      [] OTHER -> coast

\* a report whose ranges start unset
digest_with_unset_ranges ==
    [total_sites |-> 0, diveable_sites |-> 0, best_coast |-> None,
     top_sites |-> <<>>, coast_summaries |-> <<>>, tide_info |-> FALSE,
     alerts |-> <<>>, wave_range |-> None, wind_range |-> None,
     api_statuses |-> FALSE, forecast_days |-> FALSE, errors |-> <<>>]

DailyDigest ==
    [total_sites |-> 0, diveable_sites |-> 0, best_coast |-> None,
     top_sites |-> <<>>, coast_summaries |-> <<>>, tide_info |-> FALSE,
     alerts |-> <<>>, wave_range |-> <<0, 0>>, wind_range |-> <<0, 0>>,
     api_statuses |-> FALSE, forecast_days |-> FALSE, errors |-> <<>>]

RECURSIVE SeqMin(_)
SeqMin(q) == IF Len(q) = 1 THEN q[1] ELSE Min(q[1], SeqMin(Tail(q)))
RECURSIVE SeqMax(_)
SeqMax(q) == IF Len(q) = 1 THEN q[1] ELSE Max(q[1], SeqMax(Tail(q)))
RECURSIVE SeqSum(_)
SeqSum(q) == IF q = <<>> THEN 0 ELSE q[1] + SeqSum(Tail(q))

IsDiveable(r) == r.score.diveable
HasWave(r) == ~IsNone(r.conditions.wave_height_ft)
HasWind(r) == ~IsNone(r.conditions.wind_speed_mph)
NotHanauma(r) == DiveSite(r.site).name # "Hanauma Bay"

WaveHeights(ranked) ==
    LET with == SelectSeq(ranked, HasWave)
    IN  [i \in 1..Len(with) |-> Val(with[i].conditions.wave_height_ft)]

calculate_wave_range(ranked) ==
    LET heights == WaveHeights(ranked)
    IN  IF heights = <<>> THEN <<0, 0>> ELSE <<SeqMin(heights), SeqMax(heights)>>

calculate_wind_range(ranked) ==
    LET with == SelectSeq(ranked, HasWind)
        speeds == [i \in 1..Len(with) |-> Val(with[i].conditions.wind_speed_mph)]
    IN  IF speeds = <<>> THEN <<0, 0>> ELSE <<SeqMin(speeds), SeqMax(speeds)>>

classify_alert(event) ==
    CASE Lower(event) = "high surf warning" -> "high_surf_warning"
      [] Lower(event) = "high surf advisory" -> "high_surf_advisory"
      [] OTHER -> "other"

\* the alerts of all snapshots, the first occurrence of each event kept
RECURSIVE UniqueAlerts(_, _)
UniqueAlerts(all, seen) ==
    IF all = <<>> THEN <<>>
    ELSE IF Head(all).event \in seen THEN UniqueAlerts(Tail(all), seen)
    ELSE <<[type |-> classify_alert(Head(all).event), headline |-> Head(all).headline]>>
         \o UniqueAlerts(Tail(all), seen \cup {Head(all).event})

RECURSIVE AllAlerts(_)
AllAlerts(ranked) ==
    IF ranked = <<>> THEN <<>>
    ELSE Head(ranked).conditions.marine_alerts \o AllAlerts(Tail(ranked))

extract_alerts(ranked) == UniqueAlerts(AllAlerts(ranked), {})

CoastSummary(coast, coast_sites) ==
    LET heights == WaveHeights(coast_sites)
    IN  [coast |-> coast,
         display_name |-> COAST_DISPLAY_NAMES(coast),
         top_sites |-> SubSeq(coast_sites, 1, Min(COAST_TOP_SITES, Len(coast_sites))),
         \* sum(wave_heights) / len(wave_heights), kept as the pair
         average_wave_height |-> IF heights = <<>> THEN None
                                 ELSE Some(<<SeqSum(heights), Len(heights)>>),
         diveable_count |-> Len(SelectSeq(coast_sites, IsDiveable)),
         total_count |-> Len(coast_sites)]

\* summaries.sort(key=diveable_count, reverse=True): stable, descending
RECURSIVE InsertSummary(_, _)
InsertSummary(sorted, e) ==
    IF sorted = <<>> THEN <<e>>
    ELSE IF Head(sorted).diveable_count >= e.diveable_count
         THEN <<Head(sorted)>> \o InsertSummary(Tail(sorted), e)
         ELSE <<e>> \o sorted

RECURSIVE SortSummaries(_)
SortSummaries(list) ==
    IF list = <<>> THEN <<>>
    ELSE InsertSummary(SortSummaries(SubSeq(list, 1, Len(list) - 1)), list[Len(list)])

RECURSIVE SummariesFor(_, _)
SummariesFor(coasts, ranked) ==
    IF coasts = <<>> THEN <<>>
    ELSE LET coast == Head(coasts)
             OnCoast(r) == DiveSite(r.site).coast = coast
             coast_sites == SelectSeq(ranked, OnCoast)
         IN  (IF coast_sites = <<>> THEN <<>> ELSE <<CoastSummary(coast, coast_sites)>>)
             \o SummariesFor(Tail(coasts), ranked)

generate_coast_summaries(ranked) == SortSummaries(SummariesFor(Coasts, ranked))

\* max(coast_summaries, key=diveable_count, default=None): the first maximum
RECURSIVE BestSummary(_)
BestSummary(summaries) ==
    IF Len(summaries) = 1 THEN summaries[1]
    ELSE LET rest == BestSummary(Tail(summaries))
         IN  IF rest.diveable_count > Head(summaries).diveable_count THEN rest
             ELSE Head(summaries)

\* best coast named even when no location of it is diveable
best_coast_without_floor(summaries) ==
    IF summaries = <<>> THEN None
    ELSE Some(BestSummary(summaries).display_name)

BestCoast(summaries) ==
    IF summaries = <<>> THEN None
    ELSE IF BestSummary(summaries).diveable_count > 0
         THEN Some(BestSummary(summaries).display_name)
         ELSE None

\* the statements of the try block of generate after the ranking, in order
DigestSteps == <<"stats", "wave_range", "wind_range", "alerts", "tide_info",
                 "coast_summaries", "best_coast", "api_statuses", "forecast">>

DigestStep(d, step, ranked, include_coast_breakdown) ==
    CASE step = "stats" ->
           [d EXCEPT !.total_sites = Len(ranked),
                     !.diveable_sites = Len(SelectSeq(ranked, IsDiveable)),
                     !.top_sites =
                         LET filtered == SelectSeq(ranked, NotHanauma)
                         IN  SubSeq(filtered, 1, Min(TOP_SITES_COUNT, Len(filtered)))]
      [] step = "wave_range" -> [d EXCEPT !.wave_range = calculate_wave_range(ranked)]
      [] step = "wind_range" -> [d EXCEPT !.wind_range = calculate_wind_range(ranked)]
      [] step = "alerts" -> [d EXCEPT !.alerts = extract_alerts(ranked)]
      \* of the tide highlights, the API statistics and the multi-day forecast
      \* the report keeps whether the step ran
      [] step = "tide_info" -> [d EXCEPT !.tide_info = TRUE]
      [] step = "coast_summaries" ->
           IF include_coast_breakdown
           THEN [d EXCEPT !.coast_summaries = generate_coast_summaries(ranked)]
           ELSE d
      [] step = "best_coast" ->
           IF include_coast_breakdown
           THEN [d EXCEPT !.best_coast = BestCoast(d.coast_summaries)]
           ELSE d
      [] step = "api_statuses" -> [d EXCEPT !.api_statuses = TRUE]
      [] OTHER -> [d EXCEPT !.forecast_days = TRUE]

\* an except clause that answers with a fresh report holding the error
caught_with_fresh_report(d, step) == [DailyDigest EXCEPT !.errors = <<step>>]

\* `except Exception as e: digest.errors.append(str(e))`
DigestCaught(d, step) == [d EXCEPT !.errors = Append(@, step)]

\* runs the steps in order; the step named fail raises ("none": no step does)
RECURSIVE RunDigestSteps(_, _, _, _, _)
RunDigestSteps(d, steps, ranked, include_coast_breakdown, fail) ==
    IF steps = <<>> THEN d
    ELSE IF Head(steps) = fail THEN DigestCaught(d, Head(steps))
    ELSE RunDigestSteps(DigestStep(d, Head(steps), ranked, include_coast_breakdown),
                        Tail(steps), ranked, include_coast_breakdown, fail)

\* generate() from the return of _rank_all_sites on
generate(all_ranked, include_coast_breakdown, fail) ==
    IF all_ranked = <<>>
    THEN [DailyDigest EXCEPT !.errors = Append(@, "No sites could be ranked")]
    ELSE RunDigestSteps(DailyDigest, DigestSteps, all_ranked, include_coast_breakdown, fail)

DigestFailures == {"none"} \cup {DigestSteps[i] : i \in 1..Len(DigestSteps)}

\* generate() is called; _rank_all_sites either raises before the loop (the
\* catalog query) or runs a rank_sites pass with min_score = 0
Generate ==
    /\ pc \in {"idle", "returned", "reported"}
    /\ \/ /\ digest' = Some(DigestCaught(DailyDigest, "ranking"))
          /\ pc' = "reported"
          /\ caller' = "digest"
          /\ sites' = <<>>
          /\ idx' = 1
          /\ min_score' = 0
          /\ top_n' = None
          /\ ranked_sites' = <<>>
          /\ conditions' = None
          /\ log' = <<>>
          /\ alert_queries' = <<>>
          /\ wave_queries' = None
          /\ advisory_queries' = <<>>
          /\ fetched_alerts' = None
          /\ UNCHANGED <<marine_alerts_cache, advisories_cache>>
       \/ /\ \E batch \in Batches : BeginPass("digest", batch, 0)
          /\ digest' = None
    /\ query' = None
    /\ UNCHANGED <<clock, scorerVars, clientVars>>

\* the rest of generate() once the ranking has returned
FinishDigest ==
    /\ pc = "digest"
    /\ \E include_coast_breakdown \in BOOLEAN, fail \in DigestFailures :
           digest' = Some(generate(ranked_sites, include_coast_breakdown, fail))
    /\ pc' = "reported"
    /\ UNCHANGED <<caller, sites, idx, min_score, ranked_sites, conditions,
                   marine_alerts_cache, advisories_cache, clock, log, alert_queries, advisory_queries,
                   wave_queries,
                   fetched_alerts, top_n, query, scorerVars, clientVars>>

(***************************************************************************)
(* PacIOOS client: src/clients/pacioos_client.py.  The circuit breaker is  *)
(* a module-level dict shared by every client of the process; the clients  *)
(* share the response cache file of the default cache_path.                *)
(***************************************************************************)
CIRCUIT_BREAKER_THRESHOLD == 3
MaxCalls == 4          \* get_wave_data calls followed

Clients == {1, 2}

\* the locations asked about: one inside the model domain, one outside
Points == {"waikiki", "kauai"}

is_in_domain(point) == point = "waikiki"

ClientIdle ==
    /\ circuit_breaker = [failures |-> 0, is_open |-> FALSE]
    /\ pacioos_cache = {}
    /\ pacioos_calls = <<>>

\* how a request ends: rows of data, a response without data rows, or a
\* requests.RequestException
RequestOutcomes == {"data", "no_rows", "failed"}

\* the breaker left as it is by a successful request
success_keeps_count(breaker) == breaker

\* `_circuit_breaker["failures"] = 0; _circuit_breaker["is_open"] = False`
after_success(breaker) == [failures |-> 0, is_open |-> FALSE]

\* the except branch: count the failure and open the circuit at the threshold
after_failure(breaker) ==
    [failures |-> breaker.failures + 1,
     is_open |-> IF breaker.failures + 1 >= CIRCUIT_BREAKER_THRESHOLD THEN TRUE
                 ELSE breaker.is_open]

\* one get_wave_data call as the history keeps it
WaveCall(client, point, looked_up, requested, returned, breaker) ==
    [client |-> client, in_domain |-> is_in_domain(point), looked_up |-> looked_up,
     requested |-> requested, returned |-> returned, left_open |-> breaker.is_open]

\* client.get_wave_data(lat, lon, hours, use_cache): the breaker and the
\* cache it leaves and the call.  expired: the cached row is older than the
\* TTL (_get_cached deletes it); request: how the request ends, if made
get_wave_data(breaker, cache, client, point, use_cache, expired, request) ==
    IF ~is_in_domain(point) \/ breaker.is_open
    THEN [breaker |-> breaker, cache |-> cache,
          call |-> WaveCall(client, point, FALSE, FALSE, "empty", breaker)]
    ELSE LET hit == use_cache /\ point \in cache /\ ~expired
             kept == IF use_cache /\ expired THEN cache \ {point} ELSE cache
         IN  IF hit
             THEN [breaker |-> breaker, cache |-> cache,
                   call |-> WaveCall(client, point, TRUE, FALSE, "data", breaker)]
             ELSE IF request = "failed"
             THEN [breaker |-> after_failure(breaker), cache |-> kept,
                   call |-> WaveCall(client, point, use_cache, TRUE, "raised",
                                     after_failure(breaker))]
             ELSE [breaker |-> after_success(breaker),
                   cache |-> IF use_cache /\ request = "data" THEN kept \cup {point}
                             ELSE kept,
                   call |-> WaveCall(client, point, use_cache, TRUE,
                                     IF request = "data" THEN "data" ELSE "empty",
                                     after_success(breaker))]

\* a get_wave_data call on one of the clients (get_forecast and
\* get_current_conditions pass their arguments on to it)
GetWaveData ==
    /\ Len(pacioos_calls) < MaxCalls
    /\ \E client \in Clients, point \in Points, use_cache \in BOOLEAN :
           \E expired \in (IF use_cache /\ point \in pacioos_cache THEN BOOLEAN
                           ELSE {FALSE}),
              request \in RequestOutcomes :
               LET step == get_wave_data(circuit_breaker, pacioos_cache, client, point,
                                         use_cache, expired, request)
               IN  /\ circuit_breaker' = step.breaker
                   /\ pacioos_cache' = step.cache
                   /\ pacioos_calls' = Append(pacioos_calls, step.call)
    /\ UNCHANGED <<rankerVars, scorerVars>>


(***************************************************************************)
(* Specifications                                                          *)
(***************************************************************************)
NoInputs ==
    [wave_height_ft |-> None, wave_period_s |-> None, swell_direction_deg |-> None,
     wind_speed_mph |-> None, wind_direction_deg |-> None,
     rainfall_48h_inches |-> None, stream_discharge_cfs |-> None,
     brown_water_advisory |-> FALSE, tide_phase |-> None, evaluation_time |-> None,
     high_surf_warning |-> FALSE, high_surf_advisory |-> FALSE,
     site_max_safe_height_ft |-> Some(MAX_WAVE_HEIGHT_FT),
     site_optimal_tide |-> Some("any"), site_swell_exposure_primary |-> None]

ScorerIdle == inputs = NoInputs /\ result = None /\ previous = None /\ calls = <<>>

RankerIdle ==
    /\ pc = "idle"
    /\ caller = "rank"
    /\ sites = <<>>
    /\ idx = 1
    /\ min_score = 0
    /\ top_n = None
    /\ ranked_sites = <<>>
    /\ conditions = None
    /\ marine_alerts_cache = None
    /\ advisories_cache = None
    /\ log = <<>>
    /\ alert_queries = <<>>
    /\ wave_queries = None
    /\ advisory_queries = <<>>
    /\ fetched_alerts = None
    /\ digest = None
    /\ query = None

\* the ranker and the digest generator after construction
Init ==
    /\ RankerIdle
    /\ clock \in ClockHours
    /\ ScorerIdle
    /\ ClientIdle

Next ==
    \/ RankSites
    \/ FetchWaveData
    \/ FetchWeatherData
    \/ FetchTideData
    \/ FetchDischargeData
    \/ FetchAlerts
    \/ ScoreSite
    \/ SortAndReturn
    \/ Generate
    \/ FinishDigest

Spec == Init /\ [][Next]_vars

(***************************************************************************)
(* The catalog queries of the ranker: rank_coast and get_best_sites, each  *)
(* a rank_sites pass over a batch chosen from the catalog.                 *)
(***************************************************************************)
\* the coast arguments tried: two coasts with locations, one in mixed case,
\* and a coast with none
CoastArgs == {"south_shore", "North_Shore", "windward"}

\* the skill_level arguments tried: none, two ceilings of the scale and a
\* label outside it
SkillArgs == {None, Some("beginner"), Some("expert"), Some("pro")}

\* the months datetime.now() may report
Months == {1, 7}

Query(kind, coast, month, skill_level, spearfishing, count) ==
    [kind |-> kind, coast |-> coast, month |-> month, skill_level |-> skill_level,
     spearfishing |-> spearfishing, count |-> count]

\* rank_coast(coast, top_n): rank_sites(get_sites_by_coast(coast),
\* in_season_only=False, top_n=top_n)
RankCoast ==
    /\ pc \in {"idle", "returned"}
    /\ \E coast \in CoastArgs :
           /\ BeginPass("coast", get_sites_by_coast(coast), 0)
           /\ query' = Some(Query("coast", Some(coast), None, None, FALSE, None))
    /\ UNCHANGED <<clock, digest, scorerVars, clientVars>>

\* the batch get_best_sites hands to rank_sites
BestSitesBatch(month, skill_level, spearfishing) ==
    LET SkillOk(i) == skill_level_ok(DiveSite(i).skill_level, Val(skill_level))
        Spearfishing(i) == allows_spearfishing(DiveSite(i))
        in_season == get_in_season_sites(month)
        by_skill == IF ~IsNone(skill_level) THEN SelectSeq(in_season, SkillOk)
                    ELSE in_season
    IN  IF spearfishing THEN SelectSeq(by_skill, Spearfishing) ELSE by_skill

\* get_best_sites(count, skill_level, spearfishing) up to its rank_sites call
GetBestSites ==
    /\ pc \in {"idle", "returned"}
    /\ \E month \in Months, skill_level \in SkillArgs, spearfishing \in BOOLEAN :
           /\ BeginPass("best", BestSitesBatch(month, skill_level, spearfishing), 0)
           /\ query' = Some(Query("best", None, Some(month), skill_level,
                                  spearfishing, None))
    /\ UNCHANGED <<clock, digest, scorerVars, clientVars>>

\* the rest of get_best_sites: keep the diveable entries, cut to count.
\* Nothing reads count before this step, so it is drawn here.
ReturnBestSites ==
    /\ pc = "filter"
    /\ \E count \in 0..MaxTopN :
           LET diveable == SelectSeq(ranked_sites, IsDiveable)
           IN  /\ ranked_sites' = SubSeq(diveable, 1, Min(count, Len(diveable)))
               /\ query' = Some([Val(query) EXCEPT !.count = Some(count)])
    /\ pc' = "returned"
    /\ UNCHANGED <<caller, sites, idx, min_score, conditions, marine_alerts_cache,
                   advisories_cache, clock, log, alert_queries, advisory_queries,
                   wave_queries,
                   fetched_alerts, top_n, digest, scorerVars, clientVars>>

NextQuery ==
    \/ RankCoast
    \/ GetBestSites
    \/ FetchWaveData
    \/ FetchWeatherData
    \/ FetchTideData
    \/ FetchDischargeData
    \/ FetchAlerts
    \/ ScoreSite
    \/ SortAndReturn
    \/ ReturnBestSites

SpecQuery == Init /\ [][NextQuery]_vars

(***************************************************************************)
(* score_site and fetch_conditions_for_site called from outside rank_sites, *)
(* on a new ranker, after a rank_sites pass or after an earlier such call. *)
(***************************************************************************)
DirectMethods == {"score_site", "fetch_conditions_for_site"}

\* what the ranker did before the call
Before ==
    CASE pc = "idle" -> "fresh"
      [] pc = "raised" -> "failed"
      [] caller = "direct" -> "direct"
      [] OTHER -> "pass"

\* the call as the history keeps it: the method, the location, what came
\* before and the alert cache the call found
DirectQuery(method, site) ==
    [kind |-> "direct", method |-> method, site |-> site, after |-> Before,
     alerts_before |-> marine_alerts_cache]

\* ranker.score_site(site) or ranker.fetch_conditions_for_site(site): the
\* snapshot is created and the fetch steps start; neither cache is cleared
DirectCall ==
    /\ pc \in {"idle", "returned", "raised"}
    /\ \E method \in DirectMethods, site \in 1..MaxSites :
           /\ query' = Some(DirectQuery(method, site))
           /\ sites' = <<site>>
    /\ caller' = "direct"
    /\ idx' = 1
    /\ min_score' = 0
    /\ top_n' = None
    /\ ranked_sites' = <<>>
    /\ log' = <<>>
    /\ alert_queries' = <<>>
    /\ wave_queries' = None
    /\ advisory_queries' = <<>>
    /\ fetched_alerts' = None
    /\ conditions' = Some(EnvironmentalConditions(clock))
    /\ pc' = "fetch_wave"
    /\ UNCHANGED <<marine_alerts_cache, advisories_cache, clock, digest, scorerVars,
                   clientVars>>

NextDirect ==
    \/ RankSites
    \/ DirectCall
    \/ FetchWaveData
    \/ FetchWeatherData
    \/ FetchTideData
    \/ FetchDischargeData
    \/ FetchAlerts
    \/ ScoreSite
    \/ SortAndReturn

SpecDirect == Init /\ [][NextDirect]_vars


(***************************************************************************)
(* The scoring engine on its own: calculate_score is called on one of the  *)
(* inputs below, then once more with only the high_surf_warning flag       *)
(* changed.                                                                *)
(***************************************************************************)
\* <<wave_height_ft, wave_period_s, site_max_safe_height_ft>>
WaveCases ==
    {<<None, None, Some(60)>>, <<None, Some(10), Some(30)>>, <<None, None, Some(0)>>,
     <<Some(0), Some(10), Some(60)>>, <<Some(10), Some(5), Some(60)>>,
     <<Some(20), Some(10), Some(60)>>, <<Some(20), Some(10), None>>, <<Some(70), Some(10), None>>,
     <<Some(30), Some(8), Some(30)>>, <<Some(31), Some(8), Some(30)>>,
     <<Some(30), Some(8), Some(0)>>, <<Some(40), None, Some(30)>>,
     <<Some(60), Some(12), Some(60)>>, <<Some(61), Some(12), Some(60)>>,
     <<Some(60), Some(12), Some(0)>>, <<Some(80), Some(14), Some(0)>>,
     <<Some(80), Some(14), Some(90)>>, <<Some(55), Some(8), Some(60)>>,
     <<Some(15), Some(8), Some(60)>>, <<Some(25), Some(8), Some(60)>>,
     <<Some(-10), Some(10), Some(60)>>, <<Some(20), Some(0), Some(60)>>,
     <<Some(20), Some(-5), Some(60)>>}

\* <<wind_speed_mph, wind_direction_deg, site_swell_exposure_primary>>
WindCases ==
    {<<None, None, None>>, <<Some(3), Some(0), Some("S")>>,
     <<Some(12), Some(8), Some("S")>>, <<Some(22), Some(4), Some("s")>>,
     <<Some(15), None, Some("N")>>, <<Some(12), Some(0), Some("S")>>,
     <<Some(30), Some(14), Some("NW")>>}

\* <<rainfall_48h_inches, stream_discharge_cfs>>
VisibilityCases == {<<None, None>>, <<Some(5), None>>, <<Some(15), Some(40)>>,
                    <<Some(11), Some(0)>>, <<Some(25), Some(60)>>}

\* <<tide_phase, site_optimal_tide>>
TideCases == {<<None, Some("any")>>, <<Some("Rising"), Some("high")>>,
              <<Some("low"), Some("High")>>, <<Some("slack"), Some("high")>>}

EvaluationTimes == {None, Some(10), Some(12), Some(15), Some(20)}

ScoringInputs ==
    {[wave_height_ft |-> wave[1], wave_period_s |-> wave[2], swell_direction_deg |-> None,
      wind_speed_mph |-> wind[1], wind_direction_deg |-> wind[2],
      rainfall_48h_inches |-> vis[1], stream_discharge_cfs |-> vis[2],
      brown_water_advisory |-> bwa, tide_phase |-> tide[1], evaluation_time |-> time,
      high_surf_warning |-> hsw, high_surf_advisory |-> hsa,
      site_max_safe_height_ft |-> wave[3],
      site_optimal_tide |-> tide[2], site_swell_exposure_primary |-> wind[3]] :
        wave \in WaveCases, wind \in WindCases, vis \in VisibilityCases,
        tide \in TideCases, time \in EvaluationTimes,
        bwa \in BOOLEAN, hsw \in BOOLEAN, hsa \in BOOLEAN}

InitScore ==
    /\ RankerIdle
    /\ clock \in ClockHours
    /\ inputs \in ScoringInputs
    /\ result = None
    /\ previous = None
    /\ calls = <<>>
    /\ ClientIdle

\* one call as the history keeps it: the argument, the hour datetime.now()
\* reported during the call, and the value returned
Call(inp, now) == [given |-> inp, hour |-> now, returned |-> calculate_score(inp, now)]

\* scorer.calculate_score(inputs)
CalculateScore ==
    /\ result = None
    /\ result' = Some(calculate_score(inputs, clock))
    /\ calls' = Append(calls, Call(inputs, clock))
    /\ UNCHANGED <<inputs, previous, rankerVars, clientVars>>

\* the same inputs with only high_surf_warning changed, scored again
RescoreWithFlagChanged ==
    /\ result # None
    /\ previous = None
    /\ inputs' = [inputs EXCEPT !.high_surf_warning = ~@]
    /\ previous' = result
    /\ result' = Some(calculate_score(inputs', clock))
    /\ calls' = Append(calls, Call(inputs', clock))
    /\ UNCHANGED <<rankerVars, clientVars>>

\* hours datetime.now() may report by the time of a later call
LaterHours == {6, 15}

\* a later call on the same DiveScorer with inputs equal to the first call's
ScoreAgain ==
    /\ Len(calls) = 2
    /\ clock' \in LaterHours
    /\ inputs' = calls[1].given
    /\ previous' = result
    /\ result' = Some(calculate_score(inputs', clock'))
    /\ calls' = Append(calls, Call(inputs', clock'))
    /\ UNCHANGED <<pc, caller, sites, idx, min_score, ranked_sites, conditions,
                   marine_alerts_cache, advisories_cache, log, alert_queries, advisory_queries,
                   wave_queries,
                   fetched_alerts, top_n, digest, query, clientVars>>

NextScore ==
    \/ CalculateScore
    \/ RescoreWithFlagChanged
    \/ ScoreAgain

SpecScore == InitScore /\ [][NextScore]_vars

(***************************************************************************)
(* The PacIOOS client on its own: get_wave_data calls on the clients of    *)
(* one process.                                                            *)
(***************************************************************************)
\* a new process: the breaker closed, the cache file as earlier runs left it
InitBreaker ==
    /\ RankerIdle
    /\ clock \in ClockHours
    /\ ScorerIdle
    /\ circuit_breaker = [failures |-> 0, is_open |-> FALSE]
    /\ pacioos_cache \in SUBSET {p \in Points : is_in_domain(p)}
    /\ pacioos_calls = <<>>

NextBreaker == GetWaveData

SpecBreaker == InitBreaker /\ [][NextBreaker]_vars

(***************************************************************************)
(* The report over a long ranking: generate() from the return of           *)
(* _rank_all_sites on, the ranked list drawn from the rankings a pass over *)
(* up to five locations can return.                                        *)
(***************************************************************************)
MaxDigestSites == 5

\* the locations a pass is taken from, a prefix of: one on the north shore,
\* four on the south shore, one more on the north shore
DigestCatalog == <<2, 1, 3, 5, 7, 4>>

\* the snapshots a location is scored from: nothing known, a buoy reading,
\* and a brown-water advisory (which fails a safety gate)
DigestSnapshots ==
    {EnvironmentalConditions(6),
     [EnvironmentalConditions(6) EXCEPT !.wave_height_ft = Some(BuoyReading.wave_height_ft),
                                        !.wave_period_s = Some(BuoyReading.swell_period_s)],
     [EnvironmentalConditions(6) EXCEPT !.brown_water_advisory = TRUE]}

\* rank_sites(in_season_only, min_score=0) has returned: every location was
\* scored from its snapshot, sorted and given its rank
RankingReturned(batch, conds) ==
    LET n == Len(batch)
        scored == [k \in 1..n |-> score_site(DiveSite(batch[k]), conds[k], 6)]
    IN  /\ sites = batch
        /\ idx = n + 1
        /\ ranked_sites = Truncate(AssignRanks(SortByScore(scored)), None)
        /\ log = [k \in 1..n |-> [site |-> batch[k], raised |-> FALSE,
                                  total_score |-> Some(scored[k].score.total_score)]]
        /\ marine_alerts_cache = IF n = 0 THEN None ELSE Some(<<>>)
        /\ advisories_cache = IF n = 0 THEN None ELSE Some(<<>>)
        /\ fetched_alerts = IF n = 0 THEN None ELSE Some(<<>>)
        /\ alert_queries = IF n = 0 THEN <<>> ELSE <<1>>
        /\ advisory_queries = IF n = 0 THEN <<>> ELSE <<1>> \o [k \in 1..n |-> k]

InitDigest ==
    /\ pc = "digest"
    /\ caller = "digest"
    /\ min_score = 0
    /\ top_n = None
    /\ conditions = None
    /\ wave_queries = None
    /\ digest = None
    /\ query = None
    /\ clock = 6
    /\ ScorerIdle
    /\ ClientIdle
    /\ \E n \in 0..MaxDigestSites :
           \E conds \in [1..n -> DigestSnapshots] :
               RankingReturned(SubSeq(DigestCatalog, 1, n), conds)

NextDigest == FinishDigest

SpecDigest == InitDigest /\ [][NextDigest]_vars


(***************************************************************************)
(* The seasonal queries of the catalog on their own: is_in_season of a     *)
(* window and get_in_season_sites, for a month given by the caller.        *)
(***************************************************************************)
MonthsOfYear == 1..12

\* every SeasonalWindow with months in 1..12, wrapping or not
SeasonalWindows ==
    {[start_month |-> s, end_month |-> e] : s \in MonthsOfYear, e \in MonthsOfYear}

SeasonQuery(window, month) ==
    [kind |-> "season", window |-> window, month |-> month, in_season |-> None]

InitSeason ==
    /\ pc = "idle"
    /\ caller = "rank"
    /\ sites = <<>>
    /\ idx = 1
    /\ min_score = 0
    /\ top_n = None
    /\ ranked_sites = <<>>
    /\ conditions = None
    /\ marine_alerts_cache = None
    /\ advisories_cache = None
    /\ log = <<>>
    /\ alert_queries = <<>>
    /\ wave_queries = None
    /\ advisory_queries = <<>>
    /\ fetched_alerts = None
    /\ digest = None
    /\ query \in {Some(SeasonQuery(w, m)) : w \in SeasonalWindows, m \in MonthsOfYear}
    /\ clock \in ClockHours
    /\ ScorerIdle
    /\ ClientIdle

\* window.is_in_season(month)
IsInSeason ==
    /\ IsNone(Val(query).in_season)
    /\ query' = Some([Val(query) EXCEPT
                         !.in_season = Some(is_in_season(Val(query).window,
                                                         Val(query).month))])
    /\ UNCHANGED <<pc, caller, sites, idx, min_score, ranked_sites, conditions,
                   marine_alerts_cache, advisories_cache, clock, log, alert_queries,
                   advisory_queries, wave_queries, fetched_alerts, top_n, digest,
                   scorerVars, clientVars>>

\* site_db.get_in_season_sites(month)
GetInSeasonSites ==
    /\ pc = "idle"
    /\ sites' = get_in_season_sites(Val(query).month)
    /\ pc' = "returned"
    /\ UNCHANGED <<caller, idx, min_score, ranked_sites, conditions,
                   marine_alerts_cache, advisories_cache, clock, log, alert_queries,
                   advisory_queries, wave_queries, fetched_alerts, top_n, digest, query,
                   scorerVars, clientVars>>

NextSeason ==
    \/ IsInSeason
    \/ GetInSeasonSites

SpecSeason == InitSeason /\ [][NextSeason]_vars


(***************************************************************************)
(* Properties of the scoring engine (checked under SpecScore)              *)
(***************************************************************************)
Scored == result # None
Res == Val(result)

WaveGateFired(r) ==
    \E i \in 1..Len(r.failed_gates) : r.failed_gates[i].gate_name = "wave_height_exceeded"

HighSurfWarningText == Msg("High Surf Warning in effect for some areas", <<>>)

\* the call before differed in high_surf_warning only: same clock hour
OnlyFlagChanged ==
    /\ previous # None
    /\ calls[Len(calls)].hour = calls[Len(calls) - 1].hour

\* C1: whenever calculate_score is given an input whose brown-water advisory
\* flag is true, the result has total_score 0, grade F, diveable false and
\* safety_gates_passed false, whatever the other inputs are.
C1_AdvisoryGate ==
    (Scored /\ inputs.brown_water_advisory)
        => /\ Res.total_score = 0
           /\ Res.grade = "F"
           /\ Res.diveable = FALSE
           /\ Res.safety_gates_passed = FALSE

\* an advisory on a flat, calm, dry morning below every threshold
C1_Witness ==
    /\ Scored
    /\ inputs.brown_water_advisory
    /\ inputs.wave_height_ft = Some(0)
    /\ inputs.wind_speed_mph = Some(3)
    /\ inputs.rainfall_48h_inches = None
    /\ ~inputs.high_surf_warning
    /\ Res.total_score = 0

\* C2: with no advisory, a known wave height h and a site threshold t:
\* h > t gives total_score 0 and grade F with a failed gate whose reason says
\* "exceeds safe threshold"; h = t does not fire the wave-height gate; an
\* unknown wave height does not fire it either.
C2_WaveHeightGate ==
    (Scored /\ ~inputs.brown_water_advisory)
        => /\ (~IsNone(inputs.wave_height_ft) /\ ~IsNone(inputs.site_max_safe_height_ft))
                 => LET h == Val(inputs.wave_height_ft)
                        t == Val(inputs.site_max_safe_height_ft)
                    IN  /\ h > t =>
                              /\ Res.total_score = 0
                              /\ Res.grade = "F"
                              /\ \E i \in 1..Len(Res.failed_gates) :
                                     Res.failed_gates[i].reason.text
                                         = "Wave height exceeds safe threshold"
                        /\ h = t => ~WaveGateFired(Res)
           /\ IsNone(inputs.wave_height_ft) => ~WaveGateFired(Res)

HighSurfCase ==
    /\ Scored
    /\ inputs.high_surf_warning
    /\ ~inputs.brown_water_advisory
    /\ ~IsNone(inputs.wave_height_ft)
    /\ ~IsNone(inputs.site_max_safe_height_ft)
    /\ Val(inputs.wave_height_ft) < Val(inputs.site_max_safe_height_ft)

C11_DiveableFromTotal ==
    Scored
        => /\ Res.diveable <=> (Res.total_score >= DIVEABLE_MIN * 10)
           /\ Res.diveable <=> (Res.grade \in {"A", "B", "C", "D"})
           /\ (Res.total_score = DIVEABLE_MIN * 10)
                 => (Res.grade = "D" /\ Res.diveable)

\* the index and the wave score calculate_score computes for the inputs
InputWpi == calculate_wave_power_index(inputs.wave_height_ft, inputs.wave_period_s)
WpiOf(wave) == calculate_wave_power_index(wave[1], wave[2])

\* C12: calculate_wave_power_index gives height * height * period for every
\* non-negative height and positive period ((2 ft, 10 s) gives 40) and null
\* when an argument is missing, the height is negative or the period is <= 0;
\* a result with a failed gate carries that value.
C12_WavePowerIndex ==
    Scored
        => /\ IF IsNone(inputs.wave_height_ft) \/ IsNone(inputs.wave_period_s)
              THEN InputWpi = None
              ELSE IF Val(inputs.wave_height_ft) < 0 \/ Val(inputs.wave_period_s) <= 0
              THEN InputWpi = None
              ELSE InputWpi = Some(Val(inputs.wave_height_ft) * Val(inputs.wave_height_ft)
                                       * Val(inputs.wave_period_s))
           /\ (inputs.wave_height_ft = Some(20) /\ inputs.wave_period_s = Some(10))
                 => InputWpi = Some(40 * 100)
           /\ ~Res.safety_gates_passed
                 => (Res.wave_power_index = None
                        <=> \/ IsNone(inputs.wave_height_ft)
                            \/ IsNone(inputs.wave_period_s)
                            \/ Val(inputs.wave_height_ft) < 0
                            \/ Val(inputs.wave_period_s) <= 0)

\* a negative height under an advisory: the result carries no index
C12_Witness ==
    /\ Scored
    /\ inputs.wave_height_ft = Some(-10)
    /\ inputs.wave_period_s = Some(10)
    /\ inputs.brown_water_advisory
    /\ Res.wave_power_index = None

\* C13: score_wave_power is 100 for every WPI <= 5, 0 for every WPI >= 50,
\* 100 * (50 - WPI) / 45 in between and 50 for a null WPI; it never grows when
\* the WPI grows; a result whose gates passed carries it rounded.
C13_WaveScore ==
    Scored
        => /\ IsNone(InputWpi) => score_wave_power(InputWpi) = 50 * SCALE
           /\ ~IsNone(InputWpi)
                 => /\ Val(InputWpi) <= 5 * 100 => score_wave_power(InputWpi) = 100 * SCALE
                    /\ Val(InputWpi) >= 50 * 100 => score_wave_power(InputWpi) = 0
                    /\ (5 * 100 < Val(InputWpi) /\ Val(InputWpi) < 50 * 100)
                          => score_wave_power(InputWpi) * 45 * 100
                                 = 100 * (50 * 100 - Val(InputWpi)) * SCALE
                    /\ \A wave \in WaveCases :
                           (~IsNone(WpiOf(wave)) /\ Val(WpiOf(wave)) >= Val(InputWpi))
                               => score_wave_power(WpiOf(wave)) <= score_wave_power(InputWpi)
           /\ Res.safety_gates_passed
                 => Res.wave_power_score = Round1(score_wave_power(InputWpi), SCALE)

\* a WPI of 18 between the two ends: the score is 71.1
C13_Witness ==
    /\ Scored
    /\ InputWpi = Some(18 * 100)
    /\ Res.safety_gates_passed
    /\ Res.wave_power_score = 711

\* the compass labels and the heading each names, in points of 22.5 degrees
Headings ==
    {<<"N", 0>>, <<"NNE", 1>>, <<"NE", 2>>, <<"ENE", 3>>, <<"E", 4>>, <<"ESE", 5>>,
     <<"SE", 6>>, <<"SSE", 7>>, <<"S", 8>>, <<"SSW", 9>>, <<"SW", 10>>, <<"WSW", 11>>,
     <<"W", 12>>, <<"WNW", 13>>, <<"NW", 14>>, <<"NNW", 15>>}

\* C14: at the wind speed of the inputs, when it is above 5 mph, and for every
\* heading a shore can face, score_wind gives wind from the opposite heading
\* a strictly higher score than wind from the heading the shore faces, tags
\* the first "offshore" and the second "onshore"; the result carries the tag
\* and the rounded score of its own wind.
C14_OffshoreBeatsOnshore ==
    (Scored /\ ~IsNone(inputs.wind_speed_mph) /\ Val(inputs.wind_speed_mph) > 5)
        => /\ \A shore \in Headings :
                  LET offshore == score_wind(inputs.wind_speed_mph,
                                             Some((shore[2] + 8) % 16), Some(shore[1]))
                      onshore == score_wind(inputs.wind_speed_mph,
                                            Some(shore[2]), Some(shore[1]))
                  IN  /\ offshore[1] > onshore[1]
                      /\ offshore[2] = "offshore"
                      /\ onshore[2] = "onshore"
           /\ (Res.safety_gates_passed /\ ~IsNone(inputs.wind_direction_deg)
                  /\ ~IsNone(inputs.site_swell_exposure_primary))
                 => LET wind == score_wind(inputs.wind_speed_mph, inputs.wind_direction_deg,
                                           inputs.site_swell_exposure_primary)
                    IN  /\ Res.wind_type = wind[2]
                        /\ Res.wind_score = Round1(wind[1], SCALE)
                        /\ \A shore \in Headings :
                               shore[1] = inputs.site_swell_exposure_primary[1]
                                   => /\ Val(inputs.wind_direction_deg) = shore[2]
                                            => Res.wind_type = "onshore"
                                      /\ Val(inputs.wind_direction_deg) = (shore[2] + 8) % 16
                                            => Res.wind_type = "offshore"

\* 12 mph from the south on a shore facing south: onshore, scored 8.0
C14_Witness ==
    /\ Scored
    /\ inputs.wind_speed_mph = Some(12)
    /\ inputs.wind_direction_deg = Some(8)
    /\ inputs.site_swell_exposure_primary = Some("S")
    /\ Res.safety_gates_passed
    /\ Res.wind_type = "onshore"
    /\ Res.wind_score = 80

\* the band table of the time-of-day component, in points
TimeBand(hour) ==
    IF hour \in {5, 6} THEN 100
    ELSE IF hour \in {7, 8} THEN 95
    ELSE IF hour \in {9, 10} THEN 80
    ELSE IF hour \in {11, 12, 13} THEN 60
    ELSE IF hour \in {14, 15, 16} THEN 50
    ELSE IF hour \in {17, 18} THEN 70
    ELSE 40

\* the hour the call evaluates: the supplied one, else the clock's
EffectiveHour ==
    IF IsNone(inputs.evaluation_time) THEN clock ELSE Val(inputs.evaluation_time)

\* C15: the time-of-day score is the band table [5,7)->100, [7,9)->95,
\* [9,11)->80, [11,14)->60, [14,17)->50, [17,19)->70, otherwise 40, for every
\* hour 0..23; every scored result carries the band of its evaluation hour
\* whatever the other inputs are; hence 6am >= 12pm >= 3pm.
C15_TimeBands ==
    /\ \A hour \in 0..23 : score_time_of_day(hour) = TimeBand(hour) * SCALE
    /\ score_time_of_day(6) >= score_time_of_day(12)
    /\ score_time_of_day(12) >= score_time_of_day(15)
    /\ (Scored /\ Res.safety_gates_passed)
          => Res.time_score = TimeBand(EffectiveHour) * 10

C15_Witness ==
    /\ Scored
    /\ Res.safety_gates_passed
    /\ inputs.evaluation_time = Some(15)
    /\ Res.time_score = 500
    /\ inputs.wave_height_ft # None
    /\ inputs.wind_speed_mph # None

\* C16: two calls with equal inputs that carry an evaluation time return
\* results equal in every field, whatever calls were made in between and
\* whatever the clock reads; a call leaves its input as it was given.
C16_Deterministic ==
    /\ \A i, j \in 1..Len(calls) :
           (calls[i].given = calls[j].given /\ calls[i].given.evaluation_time # None)
               => calls[i].returned = calls[j].returned
    /\ Len(calls) > 0
          => /\ inputs = calls[Len(calls)].given
             /\ result = Some(calls[Len(calls)].returned)

\* the first input scored a third time at a later hour, after a call whose
\* input and result were different
C16_Witness ==
    /\ Len(calls) = 3
    /\ calls[1].given = calls[3].given
    /\ calls[3].given.evaluation_time # None
    /\ calls[3].hour # calls[1].hour
    /\ calls[2].returned # calls[3].returned
    /\ calls[3].returned.safety_gates_passed
    /\ calls[3].returned = calls[1].returned

\* C20: the wave-height gate compares the wave height with the location's
\* own max_safe_wave_height for every configured value, zero included, and
\* with the default of 6.0 ft only when the input carries no threshold.
C20_SiteThreshold ==
    (Scored /\ ~IsNone(inputs.wave_height_ft))
        => LET h == Val(inputs.wave_height_ft)
               t == IF IsNone(inputs.site_max_safe_height_ft)
                    THEN MAX_WAVE_HEIGHT_FT
                    ELSE Val(inputs.site_max_safe_height_ft)
           IN  /\ WaveGateFired(Res) <=> h > t
               /\ \A i \in 1..Len(Res.failed_gates) :
                      Res.failed_gates[i].gate_name = "wave_height_exceeded"
                          => Res.failed_gates[i].reason.args = <<h, t>>

\* the threshold of the wave-height gate: the location's own when the input
\* carries one, else the default
ConfiguredThreshold ==
    IF IsNone(inputs.site_max_safe_height_ft) THEN MAX_WAVE_HEIGHT_FT
    ELSE Val(inputs.site_max_safe_height_ft)

\* the names of the gates the input fails, in check order
GatesFailing ==
    (IF inputs.brown_water_advisory THEN <<"brown_water_advisory">> ELSE <<>>)
    \o (IF ~IsNone(inputs.wave_height_ft)
           /\ Val(inputs.wave_height_ft) > ConfiguredThreshold
        THEN <<"wave_height_exceeded">> ELSE <<>>)

GateReasonText(name) ==
    IF name = "brown_water_advisory"
    THEN "Brown Water Advisory active - poor visibility and water quality"
    ELSE "Wave height exceeds safe threshold"

\* C21: failed_gates holds exactly the gates the input fails, the advisory
\* gate before the wave-height gate, and the summary of a failed result is
\* "CONDITIONS UNSAFE" followed by the reason of every failed gate in that
\* order, both reasons when both gates fail.
C21_FailedGatesListed ==
    Scored
        => /\ Len(Res.failed_gates) = Len(GatesFailing)
           /\ \A i \in 1..Len(Res.failed_gates) :
                  Res.failed_gates[i].gate_name = GatesFailing[i]
           /\ Res.safety_gates_passed <=> GatesFailing = <<>>
           /\ GatesFailing # <<>>
                 => /\ Len(Res.summary) = Len(GatesFailing) + 1
                    /\ Res.summary[1].text = "CONDITIONS UNSAFE"
                    /\ \A i \in 1..Len(GatesFailing) :
                           Res.summary[i + 1].text = GateReasonText(GatesFailing[i])


\* a score in tenths of a point lies in [0, 100]
InRange(score) == 0 <= score /\ score <= 1000

\* C22: the weights are 0.35, 0.25, 0.20, 0.10 and 0.10 and sum to 1.0; in
\* every result that passed the gates, readings missing or not, each of the
\* five component scores and the weighted total lie in [0, 100].
C22_WeightsAndRanges ==
    /\ <<WEIGHT_WAVE_POWER * 5, WEIGHT_WIND * 5, WEIGHT_VISIBILITY * 5,
         WEIGHT_TIDE * 5, WEIGHT_TIME * 5>> = <<35, 25, 20, 10, 10>>
    /\ (WEIGHT_WAVE_POWER + WEIGHT_WIND + WEIGHT_VISIBILITY + WEIGHT_TIDE + WEIGHT_TIME) * 5
           = 100
    /\ (Scored /\ Res.safety_gates_passed)
          => /\ InRange(Res.wave_power_score)
             /\ InRange(Res.wind_score)
             /\ InRange(Res.visibility_score)
             /\ InRange(Res.tide_score)
             /\ InRange(Res.time_score)
             /\ InRange(Res.total_score)

\* a strong onshore wind scored 0 and a wave reading missing: the total is
\* still inside the range
C22_Witness ==
    /\ Scored
    /\ Res.safety_gates_passed
    /\ IsNone(inputs.wave_height_ft)
    /\ IsNone(inputs.tide_phase)
    /\ Res.wind_type = "onshore"
    /\ Res.wind_score = 0
    /\ Res.wave_power_score = 500
    /\ Res.total_score > 0


\* the inputs define a wave power index: both readings present, the height
\* not negative, the period positive
WpiDefined ==
    /\ ~IsNone(inputs.wave_height_ft)
    /\ ~IsNone(inputs.wave_period_s)
    /\ Val(inputs.wave_height_ft) >= 0
    /\ Val(inputs.wave_period_s) > 0

\* C23: a result that passed the gates reports a null wave_power_index
\* exactly when the index is undefined; a defined index, 0 for a flat sea
\* included, is reported as that number.
C23_WpiReported ==
    (Scored /\ Res.safety_gates_passed)
        => /\ IsNone(Res.wave_power_index) <=> ~WpiDefined
           /\ WpiDefined
                 => Res.wave_power_index
                        = Some(Val(inputs.wave_height_ft) * Val(inputs.wave_height_ft)
                                   * Val(inputs.wave_period_s))


\* the tide phases and tide preferences the table is checked on; "slack" and
\* "mid" are labels outside the documented ones
TidePhases == {None, Some("high"), Some("low"), Some("rising"), Some("falling"),
               Some("slack")}
TidePreferences == {Some("any"), Some("high"), Some("low"), Some("mid")}

\* the compatibility table of tide preference and tide phase, in points
TideTable(phase, preference) ==
    IF preference = Some("any") THEN 100
    ELSE IF IsNone(phase) THEN 70
    ELSE IF phase = preference THEN 100
    ELSE IF preference = Some("high") /\ phase = Some("rising") THEN 80
    ELSE IF preference = Some("high") /\ phase = Some("falling") THEN 60
    ELSE IF preference = Some("high") /\ phase = Some("low") THEN 30
    ELSE IF preference = Some("low") /\ phase = Some("falling") THEN 80
    ELSE IF preference = Some("low") /\ phase = Some("rising") THEN 60
    ELSE IF preference = Some("low") /\ phase = Some("high") THEN 30
    ELSE 70

LowerOf(label) == IF IsNone(label) THEN None ELSE Some(Lower(Val(label)))

\* C24: score_tide is 100 for the preference "any", 70 for an unknown phase,
\* 100 on an exact match, 80/60/30 for rising/falling/low at a "high"
\* location and for falling/rising/high at a "low" location, and 70 for
\* every other pair, a phase outside the four names included; a result that
\* passed the gates carries that score.
C24_TideTable ==
    /\ \A phase \in TidePhases, preference \in TidePreferences :
           score_tide(phase, preference) = TideTable(phase, preference) * SCALE
    /\ (Scored /\ Res.safety_gates_passed)
          => Res.tide_score
                 = TideTable(LowerOf(inputs.tide_phase),
                             LowerOf(inputs.site_optimal_tide)) * 10


\* the notes an input calls for, in the order of the list, each with the
\* condition that calls for it
NotesCalledFor ==
    LET speed == inputs.wind_speed_mph
        choppy == Res.wind_type = "onshore" /\ ~IsNone(speed) /\ Val(speed) > 10
        strong == ~choppy /\ ~IsNone(speed) /\ Val(speed) > 20
        visibility == score_visibility(inputs.rainfall_48h_inches,
                                       inputs.stream_discharge_cfs,
                                       inputs.brown_water_advisory)
        Note(wanted, text) == IF wanted THEN <<text>> ELSE <<>>
    IN  Note(inputs.high_surf_warning, "High Surf Warning in effect for some areas")
        \o Note(inputs.high_surf_advisory, "High Surf Advisory in effect - use caution")
        \o Note(WpiDefined /\ Val(InputWpi) > 2000,
                "Elevated wave power index - challenging conditions")
        \o Note(choppy, "Onshore winds - expect choppy conditions")
        \o Note(strong, "Strong winds")
        \o Note(visibility < 50 * SCALE,
                "Reduced visibility likely due to recent rainfall or runoff")

\* C25: the warnings of a result that passed the gates are exactly, in this
\* order, the high-surf-warning note, the high-surf-advisory note, the
\* elevated-energy note (WPI > 20), the choppy note (onshore wind above
\* 10 mph) or else the strong-wind note (above 20 mph), and the
\* reduced-visibility note (visibility score < 50); the choppy and the
\* strong-wind note never appear together.
C25_Warnings ==
    (Scored /\ Res.safety_gates_passed)
        => /\ Len(Res.warnings) = Len(NotesCalledFor)
           /\ \A i \in 1..Len(Res.warnings) : Res.warnings[i].text = NotesCalledFor[i]
           /\ ~(\E i, j \in 1..Len(Res.warnings) :
                    /\ Res.warnings[i].text = "Onshore winds - expect choppy conditions"
                    /\ Res.warnings[j].text = "Strong winds")

\* all five notes at once: both surf flags, a WPI of 72, an onshore wind of
\* 30 mph and heavy rain
C25_Witness ==
    /\ Scored
    /\ Res.safety_gates_passed
    /\ Len(Res.warnings) = 5
    /\ Res.warnings[4].text = "Onshore winds - expect choppy conditions"
    /\ inputs.wind_speed_mph = Some(30)
    /\ Res.warnings[5].text = "Reduced visibility likely due to recent rainfall or runoff"


(***************************************************************************)
(* Properties of the ranking engine and the digest (checked under Spec)    *)
(***************************************************************************)
\* rank_sites has returned its list
Finished == pc \in {"returned", "digest"}

PositionOf(site) == CHOOSE k \in 1..Len(sites) : sites[k] = site
RaisedAt == {k \in 1..Len(log) : log[k].raised}
Passed == {k \in 1..Len(log) : ~log[k].raised /\ Val(log[k].total_score) >= min_score}
Returned == {ranked_sites[i].site : i \in 1..Len(ranked_sites)}

\* the location at batch position k comes before the one at position m
ComesBefore(k, m) ==
    \/ Val(log[k].total_score) > Val(log[m].total_score)
    \/ Val(log[k].total_score) = Val(log[m].total_score) /\ k < m

C6_OneFailure ==
    /\ pc # "raised"
    /\ (Finished /\ Cardinality(RaisedAt) = 1 /\ min_score = 0 /\ IsNone(top_n))
          => /\ Len(log) = Len(sites)
             /\ Len(ranked_sites) = Len(sites) - 1
             /\ Returned = {sites[k] : k \in (1..Len(sites)) \ RaisedAt}

\* the first of two locations raised, the second is returned
C6_Witness ==
    /\ pc = "returned"
    /\ Len(sites) = 2
    /\ RaisedAt = {1}
    /\ min_score = 0
    /\ IsNone(top_n)
    /\ Returned = {sites[2]}

\* C7: in every pass the alert cache is empty when scoring starts, the
\* marine-alert provider is queried at the first location only and exactly
\* once by the end of a pass over a non-empty batch, and every snapshot of
\* the pass carries the alert list obtained in the pass.
C7_AlertsOncePerPass ==
    /\ (pc = "fetch_wave" /\ idx = 1) => IsNone(marine_alerts_cache)
    /\ Len(alert_queries) <= 1
    /\ \A q \in 1..Len(alert_queries) : alert_queries[q] = 1
    /\ (Finished /\ Len(sites) > 0) => alert_queries = <<1>>
    /\ \A i \in 1..Len(ranked_sites) :
           /\ ~IsNone(fetched_alerts)
           /\ ranked_sites[i].conditions.marine_alerts = Val(fetched_alerts)

\* the value a step of generate leaves in the report
StepValue(d, step) ==
    CASE step = "stats" -> <<d.total_sites, d.diveable_sites, d.top_sites>>
      [] step = "wave_range" -> d.wave_range
      [] step = "wind_range" -> d.wind_range
      [] step = "alerts" -> d.alerts
      [] step = "tide_info" -> d.tide_info
      [] step = "coast_summaries" -> d.coast_summaries
      [] step = "best_coast" -> d.best_coast
      [] step = "api_statuses" -> d.api_statuses
      [] OTHER -> d.forecast_days

\* the values the step can compute from the ranked list (the coast steps
\* leave the default when no coast breakdown is asked for)
StepResults(step) ==
    CASE step = "stats" ->
           {<<Len(ranked_sites), Len(SelectSeq(ranked_sites, IsDiveable)),
              SubSeq(SelectSeq(ranked_sites, NotHanauma), 1,
                     Min(TOP_SITES_COUNT, Len(SelectSeq(ranked_sites, NotHanauma))))>>}
      [] step = "wave_range" -> {calculate_wave_range(ranked_sites)}
      [] step = "wind_range" -> {calculate_wind_range(ranked_sites)}
      [] step = "alerts" -> {extract_alerts(ranked_sites)}
      [] step = "tide_info" -> {TRUE}
      [] step = "coast_summaries" -> {<<>>, generate_coast_summaries(ranked_sites)}
      [] step = "best_coast" -> {None, BestCoast(generate_coast_summaries(ranked_sites))}
      [] step = "api_statuses" -> {TRUE}
      [] OTHER -> {TRUE}

\* C8: generate always ends by returning a report; when a step raised, the
\* report's errors hold the exception text, the steps before it have left
\* their values in the report and the steps from it on have left the
\* defaults; when the ranking raised the report holds the error only.
C8_DigestKeepsFields ==
    pc = "reported"
        => /\ digest # None
           /\ Len(Val(digest).errors) <= 1
           /\ Val(digest).errors = <<"ranking">>
                 => Val(digest) = [DailyDigest EXCEPT !.errors = <<"ranking">>]
           /\ \A f \in 1..Len(DigestSteps) :
                  Val(digest).errors = <<DigestSteps[f]>>
                      => /\ \A s \in 1..(f - 1) :
                                StepValue(Val(digest), DigestSteps[s])
                                    \in StepResults(DigestSteps[s])
                         /\ \A s \in f..Len(DigestSteps) :
                                StepValue(Val(digest), DigestSteps[s])
                                    = StepValue(DailyDigest, DigestSteps[s])
           /\ (Val(digest).errors = <<>>)
                 => \A s \in 1..Len(DigestSteps) :
                        StepValue(Val(digest), DigestSteps[s]) \in StepResults(DigestSteps[s])

\* the coast summaries raised over two ranked locations: the counts, the
\* ranges and the alerts computed before are in the report
C8_Witness ==
    /\ pc = "reported"
    /\ digest # None
    /\ Val(digest).errors = <<"coast_summaries">>
    /\ Val(digest).total_sites = 2
    /\ Val(digest).wave_range # <<0, 0>>
    /\ Val(digest).alerts # <<>>
    /\ Val(digest).coast_summaries = <<>>

\* C9: a report over no ranked location has wave_range and wind_range (0,0),
\* total_sites 0, diveable_sites 0 and no best_coast; the wave range is (0,0)
\* when no ranked location has a wave height, the wind range when none has a
\* wind speed.
C9_EmptyDigest ==
    pc = "reported"
        => /\ digest # None
           /\ ranked_sites = <<>>
                 => /\ Val(digest).wave_range = <<0, 0>>
                    /\ Val(digest).wind_range = <<0, 0>>
                    /\ Val(digest).total_sites = 0
                    /\ Val(digest).diveable_sites = 0
                    /\ Val(digest).best_coast = None
           /\ (\A i \in 1..Len(ranked_sites) : ~HasWave(ranked_sites[i]))
                 => Val(digest).wave_range = <<0, 0>>
           /\ (\A i \in 1..Len(ranked_sites) : ~HasWind(ranked_sites[i]))
                 => Val(digest).wind_range = <<0, 0>>

\* a digest over a batch of two in which every location failed to score
C9_Witness ==
    /\ pc = "reported"
    /\ Len(sites) = 2
    /\ RaisedAt = {1, 2}
    /\ ranked_sites = <<>>
    /\ Val(digest).errors = <<"No sites could be ranked">>
    /\ Val(digest).wave_range = <<0, 0>>

\* C10: no failure of a collaborator leaves fetch_conditions_for_site: no
\* location's scoring ends with an exception, and when the pass is over every
\* location of the batch has been scored.
C10_NothingEscapes ==
    /\ \A k \in 1..Len(log) : ~log[k].raised
    /\ Finished => /\ Len(log) = Len(sites)
                    /\ \A k \in 1..Len(log) : ~IsNone(log[k].total_score)

\* the snapshot _fetch_wave_data has just filled in, when it returned
WaveFetched == wave_queries # None /\ pc = "fetch_weather"

\* C19: when the location has a buoy and the buoy supplies a wave height the
\* wave fields are the buoy's, the tag is "buoy" and the wave model is not
\* queried; when there is no buoy, or the buoy fails or has no reading, the
\* wave model is queried and its wave height, if any, is tagged "pacioos";
\* a wave height is present only with the tag of the source that supplied it.
C19_WaveFallback ==
    wave_queries # None
        => LET q == Val(wave_queries)
           IN  /\ q.buoy = "reading"
                     => /\ q.pacioos = "none"
                        /\ WaveFetched
                        /\ Cond.wave_source = "buoy"
                        /\ Cond.wave_height_ft = Some(BuoyReading.wave_height_ft)
                        /\ Cond.wave_period_s = Some(BuoyReading.swell_period_s)
                        /\ Cond.swell_direction_deg = Some(BuoyReading.mean_direction_deg)
               /\ q.buoy # "reading"
                     => /\ q.pacioos # "none"
                        /\ q.pacioos = "reading"
                              => /\ WaveFetched
                                 /\ Cond.wave_source = "pacioos"
                                 /\ Cond.wave_height_ft = Some(PacioosReading.wave_height_ft)
               /\ (WaveFetched /\ ~IsNone(Cond.wave_height_ft))
                     => \/ Cond.wave_source = "buoy" /\ q.buoy = "reading"
                        \/ Cond.wave_source = "pacioos" /\ q.pacioos = "reading"

(***************************************************************************)
(* Properties of the catalog queries (checked under SpecQuery)             *)
(***************************************************************************)
CatalogIds == {Catalog[k] : k \in 1..Len(Catalog)}
Considered == {sites[k] : k \in 1..Len(sites)}
CoastReturned == pc = "returned" /\ caller = "coast"
BestReturned == pc = "returned" /\ caller = "best"

\* C18: rank_coast(coast, top_n) scores exactly the catalog locations tagged
\* with the coast, in season or not, and returns at most top_n entries, all
\* of them locations of that coast, for every top_n supplied.
C18_RankCoast ==
    CoastReturned
        => /\ \A i \in CatalogIds :
                  i \in Considered
                      <=> Lower(DiveSite(i).coast) = Lower(Val(Val(query).coast))
           /\ Len(log) = Len(sites)
           /\ \A k \in 1..Len(log) : log[k].site = sites[k]
           /\ Returned \subseteq Considered
           /\ Len(ranked_sites) <= Val(top_n)

\* the skill scale of the catalog: beginner < intermediate < advanced < expert
SkillScale == <<"beginner", "intermediate", "advanced", "expert">>
OnScale(level) == \E k \in 1..Len(SkillScale) : SkillScale[k] = level
Place(level) == CHOOSE k \in 1..Len(SkillScale) : SkillScale[k] = level

\* location i may be offered for the query q
Eligible(i, q) ==
    LET site == DiveSite(i)
        window == site.seasonal_window
        month == Val(q.month)
    IN  /\ IF window.start_month <= window.end_month
           THEN month \in window.start_month..window.end_month
           ELSE month \in (window.start_month..12) \cup (1..window.end_month)
        /\ q.spearfishing => site.spearfishing = "allowed"
        /\ (~IsNone(q.skill_level) /\ OnScale(site.skill_level)
              /\ OnScale(Val(q.skill_level)))
              => Place(site.skill_level) <= Place(Val(q.skill_level))

\* C17: get_best_sites(count, skill_level, spearfishing) returns at most
\* count entries in descending total_score order; every entry is diveable,
\* in season, allows spearfishing when that is asked for and has a skill
\* level within the ceiling; exactly the eligible locations are scored, a
\* location or ceiling with a label off the scale counting as eligible, and
\* the list is the first count of the diveable ones.
C17_BestSites ==
    BestReturned
        => LET q == Val(query)
               diveable == {k \in 1..Len(log) :
                               /\ ~log[k].raised
                               /\ Val(log[k].total_score) >= DIVEABLE_MIN * 10}
           IN  /\ Len(ranked_sites) <= Val(q.count)
               /\ \A i, j \in 1..Len(ranked_sites) :
                      i < j => ranked_sites[i].score.total_score
                                   >= ranked_sites[j].score.total_score
               /\ \A i \in 1..Len(ranked_sites) :
                      /\ ranked_sites[i].score.diveable
                      /\ Eligible(ranked_sites[i].site, q)
               /\ \A i \in CatalogIds : i \in Considered <=> Eligible(i, q)
               /\ Len(ranked_sites) < Val(q.count)
                     => Returned = {log[k].site : k \in diveable}

\* a ceiling of beginner: the advanced location is left out, the one with a
\* label off the scale is scored and returned
C17_Witness ==
    /\ BestReturned
    /\ Val(query).skill_level = Some("beginner")
    /\ Val(query).month = Some(7)
    /\ Considered = {2}
    /\ Returned = {2}
    /\ Val(query).count = Some(1)

(***************************************************************************)
(* Properties of the per-pass advisory cache                               *)
(***************************************************************************)
\* C26: within one rank_sites pass the advisory list is obtained from the
\* advisory provider once (get_oahu_advisories is called at most once between
\* two resets) and the advisory flag of every location is answered from the
\* per-pass cache: a snapshot is flagged only when the cached list holds an
\* advisory.
C26_AdvisoriesOncePerPass ==
    /\ Len(advisory_queries) <= 1
    /\ (pc = "score" /\ Cond.brown_water_advisory)
           => /\ advisories_cache # None
              /\ Val(advisories_cache) # <<>>

(***************************************************************************)
(* Properties of the coast breakdown (checked under SpecDigest)            *)
(***************************************************************************)
Reported == digest # None /\ pc = "reported"

\* the breakdown is in the report and the statement that names the best
\* coast has run
HasBreakdown ==
    /\ Reported
    /\ Val(digest).coast_summaries # <<>>
    /\ \A e \in 1..Len(Val(digest).errors) : Val(digest).errors[e] # "best_coast"

DisplayNameOf(coast) ==
    CASE coast = "north_shore" -> "North Shore"
      [] coast = "south_shore" -> "South Shore"
      [] OTHER -> coast

\* the ranked locations of a coast, in rank order
RankedOn(coast) ==
    LET OnCoast(r) == DiveSite(r.site).coast = coast
    IN  SelectSeq(ranked_sites, OnCoast)

\* C27: in a report with a coast breakdown the summaries are in descending
\* order of diveable count; each has 0 <= diveable_count <= total_count and
\* lists at most 3 locations, the best-ranked ones of its coast in rank
\* order; best_coast is the display name of a summary with the largest
\* diveable count when that count is above 0, and unset otherwise.
C27_CoastBreakdown ==
    HasBreakdown
        => LET d == Val(digest)
               s == d.coast_summaries
               most == CHOOSE m \in {s[i].diveable_count : i \in 1..Len(s)} :
                          \A i \in 1..Len(s) : s[i].diveable_count <= m
           IN  /\ \A i, j \in 1..Len(s) :
                      i < j => s[i].diveable_count >= s[j].diveable_count
               /\ \A i \in 1..Len(s) :
                      /\ 0 <= s[i].diveable_count
                      /\ s[i].diveable_count <= s[i].total_count
                      /\ s[i].total_count = Len(RankedOn(s[i].coast))
                      /\ s[i].diveable_count
                             = Cardinality({k \in 1..Len(RankedOn(s[i].coast)) :
                                               RankedOn(s[i].coast)[k].score.diveable})
                      /\ Len(s[i].top_sites) <= 3
                      /\ Len(s[i].top_sites) <= s[i].total_count
                      /\ \A k \in 1..Len(s[i].top_sites) :
                             s[i].top_sites[k] = RankedOn(s[i].coast)[k]
                      /\ \A k, l \in 1..Len(s[i].top_sites) :
                             k < l => s[i].top_sites[k].rank < s[i].top_sites[l].rank
               /\ IF most > 0
                  THEN /\ d.best_coast # None
                       /\ \E i \in 1..Len(s) :
                              /\ s[i].diveable_count = most
                              /\ Val(d.best_coast) = s[i].display_name
                              /\ s[i].display_name = DisplayNameOf(s[i].coast)
                  ELSE d.best_coast = None

\* four ranked locations on the south shore, three of them diveable, and one
\* on the north shore: the south shore leads the breakdown with its three
\* best-ranked locations and is the best coast
C27_Witness ==
    /\ HasBreakdown
    /\ Len(Val(digest).coast_summaries) = 2
    /\ Val(digest).coast_summaries[1].coast = "south_shore"
    /\ Val(digest).coast_summaries[1].total_count = 4
    /\ Val(digest).coast_summaries[1].diveable_count = 3
    /\ Len(Val(digest).coast_summaries[1].top_sites) = 3
    /\ Val(digest).coast_summaries[2].diveable_count = 1
    /\ Val(digest).best_coast = Some("South Shore")

(***************************************************************************)
(* Properties of the seasonal queries (checked under SpecSeason)           *)
(***************************************************************************)
SeasonAsked == query # None /\ Val(query).kind = "season"

\* the months of a window as the rule of the seasonal window gives them
InWindow(window, month) ==
    IF window.start_month <= window.end_month
    THEN month \in window.start_month..window.end_month
    ELSE month \in (window.start_month..12) \cup (1..window.end_month)

CatalogPlace(i) == CHOOSE k \in 1..Len(Catalog) : Catalog[k] = i

\* C28: for every month 1..12, is_in_season answers true exactly when the
\* month lies from start_month to end_month for a window with
\* start_month <= end_month, and exactly when the month is at or after
\* start_month or at or before end_month for a window that wraps the year
\* boundary; get_in_season_sites(month) returns exactly the catalog locations
\* whose window is in season, each once, in catalog order.
C28_InSeason ==
    SeasonAsked
        => LET q == Val(query)
               InSeasonIds == {i \in CatalogIds :
                                  InWindow(DiveSite(i).seasonal_window, q.month)}
           IN  /\ q.month \in 1..12
               /\ ~IsNone(q.in_season)
                     => (Val(q.in_season) <=> InWindow(q.window, q.month))
               /\ pc = "returned"
                     => /\ {sites[k] : k \in 1..Len(sites)} = InSeasonIds
                        /\ Len(sites) = Cardinality(InSeasonIds)
                        /\ \A k, l \in 1..Len(sites) :
                               k < l => CatalogPlace(sites[k]) < CatalogPlace(sites[l])

\* February in a window from October to April: in season, and the catalog
\* query leaves out the location open from May to September
C28_Witness ==
    /\ SeasonAsked
    /\ Val(query).window = [start_month |-> 10, end_month |-> 4]
    /\ Val(query).month = 2
    /\ Val(query).in_season = Some(TRUE)
    /\ pc = "returned"
    /\ sites = <<1, 3>>

(***************************************************************************)
(* Properties of the PacIOOS circuit breaker (checked under SpecBreaker)   *)
(***************************************************************************)
\* the failed requests in a row at the end of the calls, over the calls that
\* issued a request
RECURSIVE FailedRun(_)
FailedRun(q) ==
    IF q = <<>> THEN 0
    ELSE LET last == q[Len(q)]
             rest == SubSeq(q, 1, Len(q) - 1)
         IN  IF ~last.requested THEN FailedRun(rest)
             ELSE IF last.returned = "raised" THEN 1 + FailedRun(rest)
             ELSE 0

\* C29: the failure count is the number of requests that failed in a row
\* (a successful request puts it back to 0); the circuit is open exactly
\* from the call whose request was the third failure in a row; every call
\* after the circuit opened, on any client, returns an empty result without
\* a request and without a cache lookup, and leaves the circuit open.
C29_CircuitBreaker ==
    /\ circuit_breaker.failures = FailedRun(pacioos_calls)
    /\ circuit_breaker.is_open <=> FailedRun(pacioos_calls) >= 3
    /\ \A k \in 1..Len(pacioos_calls) :
           /\ pacioos_calls[k].left_open <=> FailedRun(SubSeq(pacioos_calls, 1, k)) >= 3
           /\ (pacioos_calls[k].requested /\ pacioos_calls[k].returned # "raised")
                  => FailedRun(SubSeq(pacioos_calls, 1, k)) = 0
    /\ \A k, l \in 1..Len(pacioos_calls) :
           (k < l /\ pacioos_calls[k].left_open)
               => /\ ~pacioos_calls[l].requested
                  /\ ~pacioos_calls[l].looked_up
                  /\ pacioos_calls[l].returned = "empty"
                  /\ pacioos_calls[l].left_open
    /\ (pacioos_calls # <<>> /\ pacioos_calls[Len(pacioos_calls)].left_open)
           => circuit_breaker.is_open

\* three requests of one client fail in a row while the cache holds the
\* location; the other client then asks for it and gets an empty result
C29_Witness ==
    /\ Len(pacioos_calls) = 4
    /\ \A k \in 1..3 : /\ pacioos_calls[k].client = 1
                       /\ pacioos_calls[k].requested
                       /\ pacioos_calls[k].returned = "raised"
    /\ pacioos_calls[4].client = 2
    /\ pacioos_calls[4].in_domain
    /\ pacioos_calls[4].returned = "empty"
    /\ "waikiki" \in pacioos_cache
    /\ circuit_breaker = [failures |-> 3, is_open |-> TRUE]

(***************************************************************************)
(* Properties of the calls made outside rank_sites (checked under          *)
(* SpecDirect)                                                             *)
(***************************************************************************)
InDirectCall == caller = "direct" /\ query # None /\ Val(query).kind = "direct"
DirectReturned == InDirectCall /\ pc = "returned"

\* the call issued no marine-alert request and attached the list it found
ReusedAlerts ==
    /\ alert_queries = <<>>
    /\ ~IsNone(Val(query).alerts_before)
    /\ marine_alerts_cache = Val(query).alerts_before
    /\ Cond.marine_alerts = Val(Val(query).alerts_before)

\* the call asked the alert provider once, attached the list and left it cached
FetchedAlertsOnce ==
    /\ alert_queries = <<1>>
    /\ ~IsNone(marine_alerts_cache)
    /\ Cond.marine_alerts = Val(marine_alerts_cache)

\* C30: a direct score_site or fetch_conditions_for_site call never clears
\* the alert cache; one that returns after a rank_sites pass has issued no
\* marine-alert request and attached the list that pass cached; one that
\* returns on a new ranker has fetched the alerts once and left them cached,
\* and a direct call that returns after it reuses them.
C30_DirectCalls ==
    InDirectCall
        => /\ ~IsNone(Val(query).alerts_before)
                 => marine_alerts_cache = Val(query).alerts_before
           /\ (pc = "returned" /\ Val(query).after = "pass") => ReusedAlerts
           /\ (pc = "returned" /\ Val(query).after = "fresh") => FetchedAlertsOnce
           /\ (pc = "returned" /\ Val(query).after = "direct") => ReusedAlerts

\* C30, amended: a direct call never clears the alert cache; one that
\* returns has reused the cached list without a request when it found the
\* cache filled (by a pass or an earlier direct call), and has fetched the
\* alerts once and left them cached when it found the cache empty: on a new
\* ranker, and also after a pass in which no location reached the alert
\* step or the alert provider raised an exception other than NWSError.
C30_DirectCallsAmended ==
    InDirectCall
        => /\ ~IsNone(Val(query).alerts_before)
                 => marine_alerts_cache = Val(query).alerts_before
           /\ pc = "returned"
                 => IF ~IsNone(Val(query).alerts_before) THEN ReusedAlerts
                    ELSE FetchedAlertsOnce
           /\ (pc = "returned" /\ Val(query).after \in {"fresh", "direct"})
                 => IF Val(query).after = "fresh" THEN FetchedAlertsOnce
                    ELSE ReusedAlerts

\* a direct call after a pass that cached a High Surf Warning: no request,
\* the warning attached
C30_Witness ==
    /\ DirectReturned
    /\ Val(query).after = "pass"
    /\ Val(query).alerts_before = Some(<<HighSurfWarning>>)
    /\ alert_queries = <<>>
    /\ Cond.marine_alerts = <<HighSurfWarning>>

====
